---- MODULE Spec2Model ----
(***************************************************************************)
(* A model of printpop's ColorPrinter (color_printer.py): the escape       *)
(* sequences it builds and the text its print methods write.               *)
(*                                                                         *)
(* Text is a sequence of characters, each character a one-character        *)
(* string; the byte 0x1b is written "ESC".  A value handed to a print      *)
(* operation is a record [t, s, n]: a str (t = "str", text s) or an int    *)
(* (t = "int", number n).                                                  *)
(***************************************************************************)
EXTENDS Integers, Sequences, FiniteSets, TLC

VARIABLES
    pc,             \* "idle" between calls, "done" when a call has ended
    call,           \* the call made: the operation and its arguments
    ansi_seq,       \* the list of sequences the call built
    written,        \* the text the call wrote to the sink
    raised,         \* the exception the call ended with, or "none"
    color_writes,   \* the writes made to the dict COLOR_RGB since the class
                    \* was defined: <<key, value>>, <<key, <<>>>> for a deletion
    format_writes,  \* the same for the dict FORMAT_CODES
    color_printer,  \* core._color_printer: 0 for None, k for the k-th instance
    constructed,    \* how many ColorPrinter() _check_printer_obj has constructed
    earlier,        \* the kinds of calls that ended before this one
    memo,           \* one earlier call, remembered with what it wrote
    threads,        \* for each thread that prints on its own: where it is in
                    \* its call, and the pieces it has still to write
    sink            \* the write calls the threads made on the shared sink,
                    \* in the order the sink received them

vars == <<pc, call, ansi_seq, written, raised, color_writes, format_writes,
          color_printer, constructed, earlier, memo, threads, sink>>

(***************************************************************************)
(* Bounds of the model.                                                    *)
(***************************************************************************)
\* the longest list of values handed to one print call
MaxVals == 2
\* the longest list of names handed to collect_codes
MaxFormats == 2

(***************************************************************************)
(* Python's str operations, character by character.                        *)
(***************************************************************************)
ESC == "ESC"

Digits == <<"0", "1", "2", "3", "4", "5", "6", "7", "8", "9">>

RECURSIVE DecNat(_)
DecNat(n) ==
    IF n < 10 THEN <<Digits[n + 1]>>
    ELSE DecNat(n \div 10) \o <<Digits[(n % 10) + 1]>>

\* str(n) / "{n}".format(n=n) of an int: decimal digits, "-" for a negative
Dec(n) == IF n < 0 THEN <<"-">> \o DecNat(-n) ELSE DecNat(n)

\* str(v) of a value
Str(v) == IF v.t = "int" THEN Dec(v.n) ELSE v.s

\* list(map(str, objects))
RECURSIVE MapStr(_)
MapStr(objects) ==
    IF objects = <<>> THEN <<>>
    ELSE <<Str(Head(objects))>> \o MapStr(Tail(objects))

Whitespace == {" ", "\t", "\n", "\r"}

RECURSIVE LStrip(_)
LStrip(s) ==
    IF s # <<>> /\ Head(s) \in Whitespace THEN LStrip(Tail(s)) ELSE s

RECURSIVE RStrip(_)
RStrip(s) ==
    IF s # <<>> /\ s[Len(s)] \in Whitespace
    THEN RStrip(SubSeq(s, 1, Len(s) - 1))
    ELSE s

\* faulty variant, for the sensitivity of the properties: only leading
\* whitespace removed (s.lstrip())
Strip_left_only(s) == LStrip(s)

\* s.strip()
Strip(s) == RStrip(LStrip(s))

\* the letters str.lower() changes
ToLower ==
    "A" :> "a" @@ "B" :> "b" @@ "C" :> "c" @@ "D" :> "d" @@ "E" :> "e" @@ "F" :> "f" @@
    "G" :> "g" @@ "H" :> "h" @@ "I" :> "i" @@ "J" :> "j" @@ "K" :> "k" @@ "L" :> "l" @@
    "M" :> "m" @@ "N" :> "n" @@ "O" :> "o" @@ "P" :> "p" @@ "Q" :> "q" @@ "R" :> "r" @@
    "S" :> "s" @@ "T" :> "t" @@ "U" :> "u" @@ "V" :> "v" @@ "W" :> "w" @@ "X" :> "x" @@
    "Y" :> "y" @@ "Z" :> "z"

UpperCase == DOMAIN ToLower

LowerChar(c) == IF c \in UpperCase THEN ToLower[c] ELSE c

\* s.lower(): s itself when it holds no upper-case letter
RECURSIVE Lower(_)
Lower(s) ==
    IF \A i \in 1..Len(s) : s[i] \notin UpperCase THEN s
    ELSE <<LowerChar(Head(s))>> \o Lower(Tail(s))

\* s.startswith(p)
StartsWith(s, p) == Len(s) >= Len(p) /\ SubSeq(s, 1, Len(p)) = p

\* "".join(list)
RECURSIVE Concat(_)
Concat(list) ==
    IF list = <<>> THEN <<>> ELSE Head(list) \o Concat(Tail(list))

\* sep.join(list)
RECURSIVE Join(_, _)
Join(list, sep) ==
    IF list = <<>> THEN <<>>
    ELSE IF Len(list) = 1 THEN Head(list)
    ELSE Head(list) \o sep \o Join(Tail(list), sep)

(***************************************************************************)
(* ColorPrinter: templates and tables.                                     *)
(***************************************************************************)
ANSI_BASE(code) == <<ESC, "[">> \o code \o <<"m">>

RGB_FOREGROUND(r, g, b) ==
    <<ESC, "[", "3", "8", ";", "2", ";">> \o Dec(r) \o <<";">> \o Dec(g)
        \o <<";">> \o Dec(b) \o <<"m">>

\* faulty variant, for the sensitivity of the properties: the background template with the components in the order b, g, r
RGB_BACKGROUND_bgr(r, g, b) ==
    <<ESC, "[", "4", "8", ";", "2", ";">> \o Dec(b) \o <<";">> \o Dec(g)
        \o <<";">> \o Dec(r) \o <<"m">>

RGB_BACKGROUND(r, g, b) ==
    <<ESC, "[", "4", "8", ";", "2", ";">> \o Dec(r) \o <<";">> \o Dec(g)
        \o <<";">> \o Dec(b) \o <<"m">>

HYPERLINK(hyperlink, text) ==
    <<ESC, "]", "8", ";", ";">> \o hyperlink \o <<ESC, "\\">> \o text
        \o <<ESC, "]", "8", ";", ";", ESC, "\\">>

BACK_TAG == <<"b", "a", "c", "k", "_">>

DEFAULT_COLOR == <<"w", "h", "i", "t", "e">>

\* faulty variant, for the sensitivity of the properties: a component of red above 255
COLOR_RGB_out_of_range ==
    <<"r","e","d">> :> <<256,0,0>> @@
    <<"w","h","i","t","e">> :> <<255,255,255>>

COLOR_RGB ==
    <<"a","l","i","c","e","b","l","u","e">> :> <<240,248,255>> @@
    <<"a","n","t","i","q","u","e","w","h","i","t","e">> :> <<250,235,215>> @@
    <<"a","q","u","a">> :> <<0,255,255>> @@
    <<"a","q","u","a","m","a","r","i","n","e">> :> <<127,255,212>> @@
    <<"a","z","u","r","e">> :> <<240,255,255>> @@
    <<"b","i","s","q","u","e">> :> <<255,228,196>> @@
    <<"b","l","a","n","c","h","e","d","a","l","m","o","n","d">> :> <<255,235,205>> @@
    <<"b","l","u","e">> :> <<0,0,255>> @@
    <<"b","l","u","e","v","i","o","l","e","t">> :> <<138,43,226>> @@
    <<"b","r","o","w","n">> :> <<165,42,42>> @@
    <<"b","u","r","l","y","w","o","o","d">> :> <<222,184,135>> @@
    <<"c","a","d","e","t","b","l","u","e">> :> <<95,158,160>> @@
    <<"c","h","a","r","t","r","e","u","s","e">> :> <<127,255,0>> @@
    <<"c","h","o","c","o","l","a","t","e">> :> <<210,105,30>> @@
    <<"c","o","r","a","l">> :> <<255,127,80>> @@
    <<"c","o","r","n","f","l","o","w","e","r","b","l","u","e">> :> <<100,149,237>> @@
    <<"c","o","r","n","s","i","l","k">> :> <<255,248,220>> @@
    <<"c","r","i","m","s","o","n">> :> <<220,20,60>> @@
    <<"c","y","a","n">> :> <<0,255,255>> @@
    <<"d","a","r","k","b","l","u","e">> :> <<0,0,139>> @@
    <<"d","a","r","k","c","y","a","n">> :> <<0,139,139>> @@
    <<"d","a","r","k","g","r","a","y">> :> <<169,169,169>> @@
    <<"d","a","r","k","g","r","e","e","n">> :> <<0,100,0>> @@
    <<"d","a","r","k","g","r","e","y">> :> <<169,169,169>> @@
    <<"d","a","r","k","k","h","a","k","i">> :> <<189,183,107>> @@
    <<"d","a","r","k","m","a","g","e","n","t","a">> :> <<139,0,139>> @@
    <<"d","a","r","k","o","l","i","v","e","g","r","e","e","n">> :> <<85,107,47>> @@
    <<"d","a","r","k","o","r","a","n","g","e">> :> <<255,140,0>> @@
    <<"d","a","r","k","o","r","c","h","i","d">> :> <<153,50,204>> @@
    <<"d","a","r","k","r","e","d">> :> <<139,0,0>> @@
    <<"d","a","r","k","s","a","l","m","o","n">> :> <<233,150,122>> @@
    <<"d","a","r","k","s","e","a","g","r","e","e","n">> :> <<143,188,139>> @@
    <<"d","a","r","k","s","l","a","t","e","b","l","u","e">> :> <<72,61,139>> @@
    <<"d","a","r","k","s","l","a","t","e","g","r","a","y">> :> <<47,79,79>> @@
    <<"d","a","r","k","s","l","a","t","e","g","r","e","y">> :> <<47,79,79>> @@
    <<"d","a","r","k","t","u","r","q","u","o","i","s","e">> :> <<0,206,209>> @@
    <<"d","a","r","k","v","i","o","l","e","t">> :> <<148,0,211>> @@
    <<"d","e","e","p","p","i","n","k">> :> <<255,20,147>> @@
    <<"d","e","e","p","s","k","y","b","l","u","e">> :> <<0,191,255>> @@
    <<"d","i","m","g","r","a","y">> :> <<105,105,105>> @@
    <<"d","i","m","g","r","e","y">> :> <<105,105,105>> @@
    <<"d","o","d","g","e","r","b","l","u","e">> :> <<30,144,255>> @@
    <<"f","i","r","e","b","r","i","c","k">> :> <<178,34,34>> @@
    <<"f","l","o","r","a","l","w","h","i","t","e">> :> <<255,250,240>> @@
    <<"f","o","r","e","s","t","g","r","e","e","n">> :> <<34,139,34>> @@
    <<"f","u","c","h","s","i","a">> :> <<255,0,255>> @@
    <<"g","a","i","n","s","b","o","r","o">> :> <<220,220,220>> @@
    <<"g","h","o","s","t","w","h","i","t","e">> :> <<248,248,255>> @@
    <<"g","o","l","d">> :> <<255,215,0>> @@
    <<"g","r","a","y">> :> <<128,128,128>> @@
    <<"g","r","e","e","n">> :> <<0,128,0>> @@
    <<"g","r","e","e","n","y","e","l","l","o","w">> :> <<173,255,47>> @@
    <<"g","r","e","y">> :> <<128,128,128>> @@
    <<"h","o","n","e","y","d","e","w">> :> <<240,255,240>> @@
    <<"h","o","t","p","i","n","k">> :> <<255,105,180>> @@
    <<"i","n","d","i","a","n","r","e","d">> :> <<205,92,92>> @@
    <<"i","n","d","i","g","o">> :> <<75,0,130>> @@
    <<"i","v","o","r","y">> :> <<255,255,240>> @@
    <<"k","h","a","k","i">> :> <<240,230,140>> @@
    <<"l","a","v","e","n","d","e","r">> :> <<230,230,250>> @@
    <<"l","a","v","e","n","d","e","r","b","l","u","s","h">> :> <<255,240,245>> @@
    <<"l","a","w","n","g","r","e","e","n">> :> <<124,252,0>> @@
    <<"l","e","m","o","n","c","h","i","f","f","o","n">> :> <<255,250,205>> @@
    <<"l","i","g","h","t","b","l","u","e">> :> <<173,216,230>> @@
    <<"l","i","g","h","t","c","o","r","a","l">> :> <<240,128,128>> @@
    <<"l","i","g","h","t","c","y","a","n">> :> <<224,255,255>> @@
    <<"l","i","g","h","t","g","o","l","d","e","n","r","o","d","y","e","l","l","o","w">> :> <<250,250,210>> @@
    <<"l","i","g","h","t","g","r","a","y">> :> <<211,211,211>> @@
    <<"l","i","g","h","t","g","r","e","e","n">> :> <<144,238,144>> @@
    <<"l","i","g","h","t","g","r","e","y">> :> <<211,211,211>> @@
    <<"l","i","g","h","t","p","i","n","k">> :> <<255,182,193>> @@
    <<"l","i","g","h","t","s","a","l","m","o","n">> :> <<255,160,122>> @@
    <<"l","i","g","h","t","s","e","a","g","r","e","e","n">> :> <<32,178,170>> @@
    <<"l","i","g","h","t","s","k","y","b","l","u","e">> :> <<135,206,250>> @@
    <<"l","i","g","h","t","s","l","a","t","e","g","r","a","y">> :> <<119,136,153>> @@
    <<"l","i","g","h","t","s","l","a","t","e","g","r","e","y">> :> <<119,136,153>> @@
    <<"l","i","g","h","t","s","t","e","e","l","b","l","u","e">> :> <<176,196,222>> @@
    <<"l","i","g","h","t","y","e","l","l","o","w">> :> <<255,255,224>> @@
    <<"l","i","m","e">> :> <<0,255,0>> @@
    <<"l","i","m","e","g","r","e","e","n">> :> <<50,205,50>> @@
    <<"l","i","n","e","n">> :> <<250,240,230>> @@
    <<"m","a","g","e","n","t","a">> :> <<255,0,255>> @@
    <<"m","e","d","i","u","m","a","q","u","a","m","a","r","i","n","e">> :> <<102,205,170>> @@
    <<"m","e","d","i","u","m","b","l","u","e">> :> <<0,0,205>> @@
    <<"m","e","d","i","u","m","o","r","c","h","i","d">> :> <<186,85,211>> @@
    <<"m","e","d","i","u","m","p","u","r","p","l","e">> :> <<147,112,219>> @@
    <<"m","e","d","i","u","m","s","e","a","g","r","e","e","n">> :> <<60,179,113>> @@
    <<"m","e","d","i","u","m","s","l","a","t","e","b","l","u","e">> :> <<123,104,238>> @@
    <<"m","e","d","i","u","m","s","p","r","i","n","g","g","r","e","e","n">> :> <<0,250,154>> @@
    <<"m","e","d","i","u","m","t","u","r","q","u","o","i","s","e">> :> <<72,209,204>> @@
    <<"m","e","d","i","u","m","v","i","o","l","e","t","r","e","d">> :> <<199,21,133>> @@
    <<"m","i","d","n","i","g","h","t","b","l","u","e">> :> <<25,25,112>> @@
    <<"m","i","n","t","c","r","e","a","m">> :> <<245,255,250>> @@
    <<"m","i","s","t","y","r","o","s","e">> :> <<255,228,225>> @@
    <<"m","o","c","c","a","s","i","n">> :> <<255,228,181>> @@
    <<"n","a","v","y">> :> <<0,0,128>> @@
    <<"o","l","d","l","a","c","e">> :> <<253,245,230>> @@
    <<"o","l","i","v","e">> :> <<128,128,0>> @@
    <<"o","l","i","v","e","d","r","a","b">> :> <<107,142,35>> @@
    <<"o","r","a","n","g","e">> :> <<255,165,0>> @@
    <<"o","r","a","n","g","e","r","e","d">> :> <<255,69,0>> @@
    <<"o","r","c","h","i","d">> :> <<218,112,214>> @@
    <<"p","a","l","e","g","o","l","d","e","n","r","o","d">> :> <<238,232,170>> @@
    <<"p","a","l","e","g","r","e","e","n">> :> <<152,251,152>> @@
    <<"p","a","l","e","t","u","r","q","u","o","i","s","e">> :> <<175,238,238>> @@
    <<"p","a","l","e","v","i","o","l","e","t","r","e","d">> :> <<219,112,147>> @@
    <<"p","a","p","a","y","a","w","h","i","p">> :> <<255,239,213>> @@
    <<"p","e","a","c","h","p","u","f","f">> :> <<255,218,185>> @@
    <<"p","e","r","u">> :> <<205,133,63>> @@
    <<"p","i","n","k">> :> <<255,192,203>> @@
    <<"p","l","u","m">> :> <<221,160,221>> @@
    <<"p","o","w","d","e","r","b","l","u","e">> :> <<176,224,230>> @@
    <<"p","u","r","p","l","e">> :> <<128,0,128>> @@
    <<"r","e","b","e","c","c","a","p","u","r","p","l","e">> :> <<102,51,153>> @@
    <<"r","e","d">> :> <<255,0,0>> @@
    <<"r","o","s","y","b","r","o","w","n">> :> <<188,143,143>> @@
    <<"r","o","y","a","l","b","l","u","e">> :> <<65,105,225>> @@
    <<"s","a","d","d","l","e","b","r","o","w","n">> :> <<139,69,19>> @@
    <<"s","a","l","m","o","n">> :> <<250,128,114>> @@
    <<"s","a","n","d","y","b","r","o","w","n">> :> <<244,164,96>> @@
    <<"s","e","a","g","r","e","e","n">> :> <<46,139,87>> @@
    <<"s","e","a","s","h","e","l","l">> :> <<255,245,238>> @@
    <<"s","i","e","n","n","a">> :> <<160,82,45>> @@
    <<"s","i","l","v","e","r">> :> <<192,192,192>> @@
    <<"s","k","y","b","l","u","e">> :> <<135,206,235>> @@
    <<"s","l","a","t","e","b","l","u","e">> :> <<106,90,205>> @@
    <<"s","l","a","t","e","g","r","a","y">> :> <<112,128,144>> @@
    <<"s","l","a","t","e","g","r","e","y">> :> <<112,128,144>> @@
    <<"s","n","o","w">> :> <<255,250,250>> @@
    <<"s","p","r","i","n","g","g","r","e","e","n">> :> <<0,255,127>> @@
    <<"s","t","e","e","l","b","l","u","e">> :> <<70,130,180>> @@
    <<"t","a","n">> :> <<210,180,140>> @@
    <<"t","e","a","l">> :> <<0,128,128>> @@
    <<"t","h","i","s","t","l","e">> :> <<216,191,216>> @@
    <<"t","o","m","a","t","o">> :> <<255,99,71>> @@
    <<"t","u","r","q","u","o","i","s","e">> :> <<64,224,208>> @@
    <<"v","i","o","l","e","t">> :> <<238,130,238>> @@
    <<"w","h","e","a","t">> :> <<245,222,179>> @@
    <<"w","h","i","t","e">> :> <<255,255,255>> @@
    <<"w","h","i","t","e","s","m","o","k","e">> :> <<245,245,245>> @@
    <<"y","e","l","l","o","w">> :> <<255,255,0>> @@
    <<"y","e","l","l","o","w","g","r","e","e","n">> :> <<154,205,50>>

BOLD == <<"b", "o", "l", "d">>
DIM == <<"d", "i", "m">>
ITALIC == <<"i", "t", "a", "l", "i", "c">>
UNDERLINE == <<"u", "n", "d", "e", "r", "l", "i", "n", "e">>
BLINK == <<"b", "l", "i", "n", "k">>
INVERSE == <<"i", "n", "v", "e", "r", "s", "e">>
HIDDEN == <<"h", "i", "d", "d", "e", "n">>
STRIKETHROUGH == <<"s", "t", "r", "i", "k", "e", "t", "h", "r", "o", "u", "g", "h">>
RESET == <<"r", "e", "s", "e", "t">>

\* faulty variant, for the sensitivity of the properties: inverse given the code 6
FORMAT_CODES_inverse6 ==
    RESET :> <<"0">> @@ BOLD :> <<"1">> @@ DIM :> <<"2">> @@ ITALIC :> <<"3">> @@
    UNDERLINE :> <<"4">> @@ BLINK :> <<"5">> @@ INVERSE :> <<"6">> @@
    HIDDEN :> <<"8">> @@ STRIKETHROUGH :> <<"9">>

FORMAT_CODES ==
    RESET :> <<"0">> @@
    BOLD :> <<"1">> @@
    DIM :> <<"2">> @@
    ITALIC :> <<"3">> @@
    UNDERLINE :> <<"4">> @@
    BLINK :> <<"5">> @@
    INVERSE :> <<"7">> @@
    HIDDEN :> <<"8">> @@
    STRIKETHROUGH :> <<"9">>

\* a dict with the writes made to it since it was defined
Overwritten(table, writes) ==
    IF writes = {} THEN table
    ELSE LET new(k) == CHOOSE w \in writes : w[1] = k
             keys == (DOMAIN table \cup {w[1] : w \in writes})
                         \ {w[1] : w \in {x \in writes : x[2] = <<>>}}
         IN  [k \in keys |-> IF \E w \in writes : w[1] = k
                             THEN new(k)[2] ELSE table[k]]

\* a write of value (<<>>: a deletion) under key added to the writes
Write(writes, key, value) ==
    {w \in writes : w[1] # key} \cup {<<key, value>>}

\* the two tables as they are when a method reads them
color_rgb == Overwritten(COLOR_RGB, color_writes)
format_codes == Overwritten(FORMAT_CODES, format_writes)

\* their keys
ColorKeys == DOMAIN color_rgb
FormatKeys == DOMAIN format_codes

(***************************************************************************)
(* ColorPrinter: the methods, as functions of their arguments.  A print    *)
(* method yields [raised, written, ansi]: the exception it ends with       *)
(* ("none" when it returns), the text it wrote to the sink, and the list   *)
(* of sequences it handed to print_ansi.                                   *)
(***************************************************************************)
\* faulty variant, for the sensitivity of the properties: the two templates exchanged
build_ansi_sequence_swapped(fg, r, g, b) ==
    IF fg THEN RGB_BACKGROUND(r, g, b) ELSE RGB_FOREGROUND(r, g, b)

\* faulty variant, for the sensitivity of the properties: the components
\* clamped to a byte before they are formatted
build_ansi_sequence_clamped(fg, r, g, b) ==
    LET clamp(x) == IF x < 0 THEN 0 ELSE IF x > 255 THEN 255 ELSE x
    IN  IF fg THEN RGB_FOREGROUND(clamp(r), clamp(g), clamp(b))
        ELSE RGB_BACKGROUND(clamp(r), clamp(g), clamp(b))

build_ansi_sequence(fg, r, g, b) ==
    IF fg THEN RGB_FOREGROUND(r, g, b) ELSE RGB_BACKGROUND(r, g, b)

\* faulty variant, for the sensitivity of the properties: an unknown name falls back to the default colour
collect_code_default(fmt) ==
    LET key == Lower(Strip(fmt))
    IN  IF key \in FormatKeys
        THEN <<ANSI_BASE(format_codes[key])>>
        ELSE LET is_background == StartsWith(key, BACK_TAG)
                 name == IF is_background
                         THEN SubSeq(key, Len(BACK_TAG) + 1, Len(key))
                         ELSE key
                 rgb == IF name \in ColorKeys THEN color_rgb[name]
                        ELSE color_rgb[DEFAULT_COLOR]
             IN  <<build_ansi_sequence(~is_background, rgb[1], rgb[2], rgb[3])>>

\* faulty variant, for the sensitivity of the properties: a colour name selects the background and a back_ name the foreground
collect_code_background(fmt) ==
    LET key == Lower(Strip(fmt))
    IN  IF key \in FormatKeys
        THEN <<ANSI_BASE(format_codes[key])>>
        ELSE LET is_background == StartsWith(key, BACK_TAG)
                 name == IF is_background
                         THEN SubSeq(key, Len(BACK_TAG) + 1, Len(key))
                         ELSE key
             IN  IF name \in ColorKeys
                 THEN <<build_ansi_sequence(is_background, color_rgb[name][1],
                                            color_rgb[name][2], color_rgb[name][3])>>
                 ELSE <<>>

\* one turn of the loop of collect_codes: the codes appended for fmt
collect_code(fmt) ==
    LET key == Lower(Strip(fmt))
    IN  IF key \in FormatKeys
        THEN <<ANSI_BASE(format_codes[key])>>
        ELSE LET is_background == StartsWith(key, BACK_TAG)
                 name == IF is_background
                         THEN SubSeq(key, Len(BACK_TAG) + 1, Len(key))
                         ELSE key
             IN  IF name \in ColorKeys
                 THEN <<build_ansi_sequence(~is_background, color_rgb[name][1],
                                            color_rgb[name][2], color_rgb[name][3])>>
                 ELSE <<>>

\* faulty variant, for the sensitivity of the properties: a code already collected is not appended again
RECURSIVE collect_codes_unique(_)
collect_codes_unique(formats) ==
    IF formats = <<>> THEN <<>>
    ELSE LET codes == collect_codes_unique(SubSeq(formats, 1, Len(formats) - 1))
             code == collect_code(formats[Len(formats)])
         IN  IF code # <<>> /\ \E i \in 1..Len(codes) : codes[i] = code[1]
             THEN codes
             ELSE codes \o code

RECURSIVE collect_codes(_)
collect_codes(formats) ==
    IF formats = <<>> THEN <<>>
    ELSE collect_code(Head(formats)) \o collect_codes(Tail(formats))

\* the builtin print(*parts, sep=sep, end=end, file=file): the text it writes
builtin_print(parts, sep, end) == Join(parts, sep) \o end

\* faulty variant, for the sensitivity of the properties: the reset code appended to the first piece
print_ansi_reset_first(objects, sep, end, reset, ansi_list) ==
    LET parts == MapStr(objects)
        reset_seq == ANSI_BASE(format_codes[RESET])
    IN  IF ansi_list # <<>>
        THEN IF parts = <<>>
             THEN [raised |-> "IndexError", written |-> <<>>, ansi |-> ansi_list]
             ELSE LET first == [parts EXCEPT ![1] = Concat(ansi_list) \o @]
                      last == IF reset
                              THEN [first EXCEPT ![1] = @ \o reset_seq]
                              ELSE first
                  IN  [raised |-> "none",
                       written |-> builtin_print(last, sep, end),
                       ansi |-> ansi_list]
        ELSE [raised |-> "none",
              written |-> builtin_print(parts, sep, end),
              ansi |-> ansi_list]

print_ansi(objects, sep, end, reset, ansi_list) ==
    LET parts == MapStr(objects)
        reset_seq == ANSI_BASE(format_codes[RESET])
    IN  IF ansi_list # <<>>
        THEN IF parts = <<>>
             THEN [raised |-> "IndexError", written |-> <<>>, ansi |-> ansi_list]
             ELSE LET first == [parts EXCEPT ![1] = Concat(ansi_list) \o @]
                      last == IF reset
                              THEN [first EXCEPT ![Len(first)] = @ \o reset_seq]
                              ELSE first
                  IN  [raised |-> "none",
                       written |-> builtin_print(last, sep, end),
                       ansi |-> ansi_list]
        ELSE [raised |-> "none",
              written |-> builtin_print(parts, sep, end),
              ansi |-> ansi_list]

\* print_ansi up to its call of print: the list parts it hands over, with
\* the prefix joined to the first piece and the reset code to the last
print_ansi_parts(objects, reset, ansi_list) ==
    LET parts == MapStr(objects)
        reset_seq == ANSI_BASE(format_codes[RESET])
    IN  IF ansi_list # <<>>
        THEN IF parts = <<>>
             THEN [raised |-> "IndexError", parts |-> <<>>]
             ELSE LET first == [parts EXCEPT ![1] = Concat(ansi_list) \o @]
                  IN  [raised |-> "none",
                       parts |-> IF reset
                                 THEN [first EXCEPT ![Len(first)] = @ \o reset_seq]
                                 ELSE first]
        ELSE [raised |-> "none", parts |-> parts]

\* the builtin print(*parts, sep=sep, end=end, file=file): the arguments of
\* the calls of file.write it makes, in order: a piece, then sep and a piece
\* for every further piece, then end (an empty sep or end is written too)
write_calls(parts, sep, end) ==
    [i \in 1..(2 * Len(parts) - 1) |-> IF i % 2 = 1 THEN parts[(i + 1) \div 2] ELSE sep]
        \o <<end>>

\* faulty variant, for the sensitivity of the properties: underline tested before bold
StyleFlags_underline_first ==
    <<UNDERLINE, BOLD, DIM, ITALIC, BLINK, INVERSE, HIDDEN, STRIKETHROUGH>>

\* the style keywords of print_formatted's boolean parameters, in the order
\* of its if statements
StyleFlags == <<BOLD, DIM, ITALIC, UNDERLINE, BLINK, INVERSE, HIDDEN, STRIKETHROUGH>>

\* faulty variant, for the sensitivity of the properties: an unknown colour name replaced by the default colour
fmt_keys_default(flags, color, back_color) ==
    LET styles == SelectSeq(StyleFlags, LAMBDA k : k \in flags)
        name == Lower(Strip(color))
        back_name == Lower(Strip(back_color))
    IN  styles
        \o (IF name \in ColorKeys THEN <<name>> ELSE <<DEFAULT_COLOR>>)
        \o (IF back_name \in ColorKeys THEN <<BACK_TAG \o back_name>>
            ELSE <<BACK_TAG \o DEFAULT_COLOR>>)

\* fmt_keys as print_formatted builds it; flags is the set of style
\* keywords whose parameter is True
fmt_keys(flags, color, back_color) ==
    LET styles == SelectSeq(StyleFlags, LAMBDA k : k \in flags)
        name == Lower(Strip(color))
        back_name == Lower(Strip(back_color))
    IN  styles
        \o (IF name \in ColorKeys THEN <<name>> ELSE <<>>)
        \o (IF back_name \in ColorKeys THEN <<BACK_TAG \o back_name>> ELSE <<>>)

print_formatted(objects, sep, end, flags, color, back_color, reset) ==
    print_ansi(objects, sep, end, reset,
               collect_codes(fmt_keys(flags, color, back_color)))

print_rgb(objects, sep, end, reset, r, g, b, background) ==
    print_ansi(objects, sep, end, reset,
               <<build_ansi_sequence(~background, r, g, b)>>)

\* faulty variant, for the sensitivity of the properties: the lookup without its default (COLOR_RGB.get(name))
print_color_no_default(objects, sep, end, color, background, reset) ==
    LET name == Lower(Strip(color))
    IN  IF name \in ColorKeys
        THEN print_rgb(objects, sep, end, reset, color_rgb[name][1],
                       color_rgb[name][2], color_rgb[name][3], background)
        ELSE [raised |-> "TypeError", written |-> <<>>, ansi |-> <<>>]

print_color(objects, sep, end, color, background, reset) ==
    LET name == Lower(Strip(color))
        rgb == IF name \in ColorKeys
               THEN color_rgb[name]
               ELSE color_rgb[DEFAULT_COLOR]
    IN  print_rgb(objects, sep, end, reset, rgb[1], rgb[2], rgb[3], background)

print_hyperlink(text, hyperlink, sep, end, flags, color, back_color, reset) ==
    print_formatted(<<[t |-> "str", s |-> HYPERLINK(hyperlink, text), n |-> 0]>>,
                    sep, end, flags, color, back_color, reset)

\* faulty variant, for the sensitivity of the properties: print_color keeps
\* the colour it fell back to under the unknown name (COLOR_RGB.setdefault)
WritesAfter_cached(c) ==
    LET name == Lower(Strip(c.color))
    IN  [colors |-> IF c.op \in {"print_color", "core.print_color"}
                       /\ name \notin ColorKeys
                    THEN Write(color_writes, name, color_rgb[DEFAULT_COLOR])
                    ELSE color_writes,
         formats |-> format_writes]

\* faulty variant, for the sensitivity of the properties: print_formatted
\* takes the colour out of the table as it looks it up (COLOR_RGB.pop(key))
WritesAfter_popped(c) ==
    LET name == Lower(Strip(c.color))
    IN  [colors |-> IF c.op \in {"print_formatted", "core.print_formatted"}
                       /\ name \in ColorKeys
                    THEN Write(color_writes, name, <<>>)
                    ELSE color_writes,
         formats |-> format_writes]

\* the writes to the two tables after the call c: the methods only read
\* them (in, get, subscripts, iteration), none assigns to them or to one
\* of their entries, so the call adds no write
WritesAfter(c) == [colors |-> color_writes, formats |-> format_writes]

(***************************************************************************)
(* The defaults of the keyword parameters, and the method a call names.    *)
(***************************************************************************)
DefaultSep == <<" ">>
DefaultEnd == <<"\n">>

\* faulty variant, for the sensitivity of the properties: print_hyperlink
\* declared with reset = False
DefaultReset_hyperlink_off(op) == op # "print_hyperlink"

\* reset = True in the signature of every printing method
DefaultReset(op) == TRUE

\* faulty variant, for the sensitivity of the properties: print_hyperlink
\* declared with underline: bool = False
DefaultFlags_none(op) == {}

\* the style flags that are True when the caller passes none: all are
\* False but underline in print_hyperlink
DefaultFlags(op) == IF op = "print_hyperlink" THEN {UNDERLINE} ELSE {}

\* color = DEFAULT_COLOR in print_color, color = "" and back_color = ""
\* in print_formatted and print_hyperlink
DefaultColor(op) == IF op = "print_color" THEN DEFAULT_COLOR ELSE <<>>

\* r = 0, g = 0, b = 0 in print_rgb
DefaultComponent == 0
DefaultBackground == FALSE

\* the methods of ColorPrinter that print
PrintMethods == {"print_formatted", "print_rgb", "print_color", "print_hyperlink"}

\* what the method named by the call c does with the arguments of c
Method(c) ==
    CASE c.op = "print_ansi" ->
             print_ansi(c.objects, c.sep, c.end, c.reset, c.ansi_list)
      [] c.op = "print_formatted" ->
             print_formatted(c.objects, c.sep, c.end, c.flags, c.color,
                             c.back_color, c.reset)
      [] c.op = "print_rgb" ->
             print_rgb(c.objects, c.sep, c.end, c.reset, c.r, c.g, c.b,
                       c.background)
      [] c.op = "print_color" ->
             print_color(c.objects, c.sep, c.end, c.color, c.background, c.reset)
      [] c.op = "print_hyperlink" ->
             print_hyperlink(c.text, c.hyperlink, c.sep, c.end, c.flags,
                             c.color, c.back_color, c.reset)
      [] c.op = "collect_codes" ->
             [raised |-> "none", written |-> <<>>,
              ansi |-> collect_codes(c.formats)]

(***************************************************************************)
(* core.py: the functions print_<c> and print_<c>_back.                    *)
(***************************************************************************)
\* faulty variant, for the sensitivity of the properties: print_white is the only colour function
PRINT_FUNCTIONS_white_only ==
    <<"w","h","i","t","e">> :> <<"w","h","i","t","e">>

\* the functions print_<c> the module defines: c, and the value of the
\* constant ColorPrinter.<C> each hands to print_color as color
PRINT_FUNCTIONS ==
    <<"i","n","d","i","a","n","r","e","d">> :> <<"i","n","d","i","a","n","r","e","d">> @@
    <<"l","i","g","h","t","c","o","r","a","l">> :> <<"l","i","g","h","t","c","o","r","a","l">> @@
    <<"s","a","l","m","o","n">> :> <<"s","a","l","m","o","n">> @@
    <<"d","a","r","k","s","a","l","m","o","n">> :> <<"d","a","r","k","s","a","l","m","o","n">> @@
    <<"l","i","g","h","t","s","a","l","m","o","n">> :> <<"l","i","g","h","t","s","a","l","m","o","n">> @@
    <<"c","r","i","m","s","o","n">> :> <<"c","r","i","m","s","o","n">> @@
    <<"r","e","d">> :> <<"r","e","d">> @@
    <<"f","i","r","e","b","r","i","c","k">> :> <<"f","i","r","e","b","r","i","c","k">> @@
    <<"d","a","r","k","r","e","d">> :> <<"d","a","r","k","r","e","d">> @@
    <<"p","i","n","k">> :> <<"p","i","n","k">> @@
    <<"l","i","g","h","t","p","i","n","k">> :> <<"l","i","g","h","t","p","i","n","k">> @@
    <<"h","o","t","p","i","n","k">> :> <<"h","o","t","p","i","n","k">> @@
    <<"d","e","e","p","p","i","n","k">> :> <<"d","e","e","p","p","i","n","k">> @@
    <<"m","e","d","i","u","m","v","i","o","l","e","t","r","e","d">> :> <<"m","e","d","i","u","m","v","i","o","l","e","t","r","e","d">> @@
    <<"p","a","l","e","v","i","o","l","e","t","r","e","d">> :> <<"p","a","l","e","v","i","o","l","e","t","r","e","d">> @@
    <<"c","o","r","a","l">> :> <<"c","o","r","a","l">> @@
    <<"t","o","m","a","t","o">> :> <<"t","o","m","a","t","o">> @@
    <<"o","r","a","n","g","e","r","e","d">> :> <<"o","r","a","n","g","e","r","e","d">> @@
    <<"d","a","r","k","o","r","a","n","g","e">> :> <<"d","a","r","k","o","r","a","n","g","e">> @@
    <<"o","r","a","n","g","e">> :> <<"o","r","a","n","g","e">> @@
    <<"g","o","l","d">> :> <<"g","o","l","d">> @@
    <<"y","e","l","l","o","w">> :> <<"y","e","l","l","o","w">> @@
    <<"l","i","g","h","t","y","e","l","l","o","w">> :> <<"l","i","g","h","t","y","e","l","l","o","w">> @@
    <<"l","e","m","o","n","c","h","i","f","f","o","n">> :> <<"l","e","m","o","n","c","h","i","f","f","o","n">> @@
    <<"l","i","g","h","t","g","o","l","d","e","n","r","o","d","y","e","l","l","o","w">> :> <<"l","i","g","h","t","g","o","l","d","e","n","r","o","d","y","e","l","l","o","w">> @@
    <<"p","a","p","a","y","a","w","h","i","p">> :> <<"p","a","p","a","y","a","w","h","i","p">> @@
    <<"m","o","c","c","a","s","i","n">> :> <<"m","o","c","c","a","s","i","n">> @@
    <<"p","e","a","c","h","p","u","f","f">> :> <<"p","e","a","c","h","p","u","f","f">> @@
    <<"p","a","l","e","g","o","l","d","e","n","r","o","d">> :> <<"p","a","l","e","g","o","l","d","e","n","r","o","d">> @@
    <<"k","h","a","k","i">> :> <<"k","h","a","k","i">> @@
    <<"d","a","r","k","k","h","a","k","i">> :> <<"d","a","r","k","k","h","a","k","i">> @@
    <<"l","a","v","e","n","d","e","r">> :> <<"l","a","v","e","n","d","e","r">> @@
    <<"t","h","i","s","t","l","e">> :> <<"t","h","i","s","t","l","e">> @@
    <<"p","l","u","m">> :> <<"p","l","u","m">> @@
    <<"v","i","o","l","e","t">> :> <<"v","i","o","l","e","t">> @@
    <<"o","r","c","h","i","d">> :> <<"o","r","c","h","i","d">> @@
    <<"f","u","c","h","s","i","a">> :> <<"f","u","c","h","s","i","a">> @@
    <<"m","a","g","e","n","t","a">> :> <<"m","a","g","e","n","t","a">> @@
    <<"m","e","d","i","u","m","o","r","c","h","i","d">> :> <<"m","e","d","i","u","m","o","r","c","h","i","d">> @@
    <<"m","e","d","i","u","m","p","u","r","p","l","e">> :> <<"m","e","d","i","u","m","p","u","r","p","l","e">> @@
    <<"r","e","b","e","c","c","a","p","u","r","p","l","e">> :> <<"r","e","b","e","c","c","a","p","u","r","p","l","e">> @@
    <<"b","l","u","e","v","i","o","l","e","t">> :> <<"b","l","u","e","v","i","o","l","e","t">> @@
    <<"d","a","r","k","v","i","o","l","e","t">> :> <<"d","a","r","k","v","i","o","l","e","t">> @@
    <<"d","a","r","k","o","r","c","h","i","d">> :> <<"d","a","r","k","o","r","c","h","i","d">> @@
    <<"d","a","r","k","m","a","g","e","n","t","a">> :> <<"d","a","r","k","m","a","g","e","n","t","a">> @@
    <<"p","u","r","p","l","e">> :> <<"p","u","r","p","l","e">> @@
    <<"i","n","d","i","g","o">> :> <<"i","n","d","i","g","o">> @@
    <<"s","l","a","t","e","b","l","u","e">> :> <<"s","l","a","t","e","b","l","u","e">> @@
    <<"d","a","r","k","s","l","a","t","e","b","l","u","e">> :> <<"d","a","r","k","s","l","a","t","e","b","l","u","e">> @@
    <<"m","e","d","i","u","m","s","l","a","t","e","b","l","u","e">> :> <<"m","e","d","i","u","m","s","l","a","t","e","b","l","u","e">> @@
    <<"g","r","e","e","n","y","e","l","l","o","w">> :> <<"g","r","e","e","n","y","e","l","l","o","w">> @@
    <<"c","h","a","r","t","r","e","u","s","e">> :> <<"c","h","a","r","t","r","e","u","s","e">> @@
    <<"l","a","w","n","g","r","e","e","n">> :> <<"l","a","w","n","g","r","e","e","n">> @@
    <<"l","i","m","e">> :> <<"l","i","m","e">> @@
    <<"l","i","m","e","g","r","e","e","n">> :> <<"l","i","m","e","g","r","e","e","n">> @@
    <<"p","a","l","e","g","r","e","e","n">> :> <<"p","a","l","e","g","r","e","e","n">> @@
    <<"l","i","g","h","t","g","r","e","e","n">> :> <<"l","i","g","h","t","g","r","e","e","n">> @@
    <<"m","e","d","i","u","m","s","p","r","i","n","g","g","r","e","e","n">> :> <<"m","e","d","i","u","m","s","p","r","i","n","g","g","r","e","e","n">> @@
    <<"s","p","r","i","n","g","g","r","e","e","n">> :> <<"s","p","r","i","n","g","g","r","e","e","n">> @@
    <<"m","e","d","i","u","m","s","e","a","g","r","e","e","n">> :> <<"m","e","d","i","u","m","s","e","a","g","r","e","e","n">> @@
    <<"s","e","a","g","r","e","e","n">> :> <<"s","e","a","g","r","e","e","n">> @@
    <<"f","o","r","e","s","t","g","r","e","e","n">> :> <<"f","o","r","e","s","t","g","r","e","e","n">> @@
    <<"g","r","e","e","n">> :> <<"g","r","e","e","n">> @@
    <<"d","a","r","k","g","r","e","e","n">> :> <<"d","a","r","k","g","r","e","e","n">> @@
    <<"y","e","l","l","o","w","g","r","e","e","n">> :> <<"y","e","l","l","o","w","g","r","e","e","n">> @@
    <<"o","l","i","v","e","d","r","a","b">> :> <<"o","l","i","v","e","d","r","a","b">> @@
    <<"o","l","i","v","e">> :> <<"o","l","i","v","e">> @@
    <<"d","a","r","k","o","l","i","v","e","g","r","e","e","n">> :> <<"d","a","r","k","o","l","i","v","e","g","r","e","e","n">> @@
    <<"m","e","d","i","u","m","a","q","u","a","m","a","r","i","n","e">> :> <<"m","e","d","i","u","m","a","q","u","a","m","a","r","i","n","e">> @@
    <<"d","a","r","k","s","e","a","g","r","e","e","n">> :> <<"d","a","r","k","s","e","a","g","r","e","e","n">> @@
    <<"l","i","g","h","t","s","e","a","g","r","e","e","n">> :> <<"l","i","g","h","t","s","e","a","g","r","e","e","n">> @@
    <<"d","a","r","k","c","y","a","n">> :> <<"d","a","r","k","c","y","a","n">> @@
    <<"t","e","a","l">> :> <<"t","e","a","l">> @@
    <<"a","q","u","a">> :> <<"a","q","u","a">> @@
    <<"c","y","a","n">> :> <<"c","y","a","n">> @@
    <<"l","i","g","h","t","c","y","a","n">> :> <<"l","i","g","h","t","c","y","a","n">> @@
    <<"p","a","l","e","t","u","r","q","u","o","i","s","e">> :> <<"p","a","l","e","t","u","r","q","u","o","i","s","e">> @@
    <<"a","q","u","a","m","a","r","i","n","e">> :> <<"a","q","u","a","m","a","r","i","n","e">> @@
    <<"t","u","r","q","u","o","i","s","e">> :> <<"t","u","r","q","u","o","i","s","e">> @@
    <<"m","e","d","i","u","m","t","u","r","q","u","o","i","s","e">> :> <<"m","e","d","i","u","m","t","u","r","q","u","o","i","s","e">> @@
    <<"d","a","r","k","t","u","r","q","u","o","i","s","e">> :> <<"d","a","r","k","t","u","r","q","u","o","i","s","e">> @@
    <<"c","a","d","e","t","b","l","u","e">> :> <<"c","a","d","e","t","b","l","u","e">> @@
    <<"s","t","e","e","l","b","l","u","e">> :> <<"s","t","e","e","l","b","l","u","e">> @@
    <<"l","i","g","h","t","s","t","e","e","l","b","l","u","e">> :> <<"l","i","g","h","t","s","t","e","e","l","b","l","u","e">> @@
    <<"p","o","w","d","e","r","b","l","u","e">> :> <<"p","o","w","d","e","r","b","l","u","e">> @@
    <<"l","i","g","h","t","b","l","u","e">> :> <<"l","i","g","h","t","b","l","u","e">> @@
    <<"s","k","y","b","l","u","e">> :> <<"s","k","y","b","l","u","e">> @@
    <<"l","i","g","h","t","s","k","y","b","l","u","e">> :> <<"l","i","g","h","t","s","k","y","b","l","u","e">> @@
    <<"d","e","e","p","s","k","y","b","l","u","e">> :> <<"d","e","e","p","s","k","y","b","l","u","e">> @@
    <<"d","o","d","g","e","r","b","l","u","e">> :> <<"d","o","d","g","e","r","b","l","u","e">> @@
    <<"c","o","r","n","f","l","o","w","e","r","b","l","u","e">> :> <<"c","o","r","n","f","l","o","w","e","r","b","l","u","e">> @@
    <<"r","o","y","a","l","b","l","u","e">> :> <<"r","o","y","a","l","b","l","u","e">> @@
    <<"b","l","u","e">> :> <<"b","l","u","e">> @@
    <<"m","e","d","i","u","m","b","l","u","e">> :> <<"m","e","d","i","u","m","b","l","u","e">> @@
    <<"d","a","r","k","b","l","u","e">> :> <<"d","a","r","k","b","l","u","e">> @@
    <<"n","a","v","y">> :> <<"n","a","v","y">> @@
    <<"m","i","d","n","i","g","h","t","b","l","u","e">> :> <<"m","i","d","n","i","g","h","t","b","l","u","e">> @@
    <<"d","a","r","k","g","r","a","y">> :> <<"d","a","r","k","g","r","a","y">> @@
    <<"d","a","r","k","g","r","e","y">> :> <<"d","a","r","k","g","r","e","y">> @@
    <<"d","i","m","g","r","a","y">> :> <<"d","i","m","g","r","a","y">> @@
    <<"d","i","m","g","r","e","y">> :> <<"d","i","m","g","r","e","y">> @@
    <<"l","i","g","h","t","s","l","a","t","e","g","r","a","y">> :> <<"l","i","g","h","t","s","l","a","t","e","g","r","a","y">> @@
    <<"l","i","g","h","t","s","l","a","t","e","g","r","e","y">> :> <<"l","i","g","h","t","s","l","a","t","e","g","r","e","y">> @@
    <<"l","i","g","h","t","g","r","a","y">> :> <<"l","i","g","h","t","g","r","a","y">> @@
    <<"l","i","g","h","t","g","r","e","y">> :> <<"l","i","g","h","t","g","r","e","y">> @@
    <<"s","l","a","t","e","g","r","a","y">> :> <<"s","l","a","t","e","g","r","a","y">> @@
    <<"s","l","a","t","e","g","r","e","y">> :> <<"s","l","a","t","e","g","r","e","y">> @@
    <<"g","r","a","y">> :> <<"g","r","a","y">> @@
    <<"g","r","e","y">> :> <<"g","r","e","y">> @@
    <<"d","a","r","k","s","l","a","t","e","g","r","a","y">> :> <<"d","a","r","k","s","l","a","t","e","g","r","a","y">> @@
    <<"d","a","r","k","s","l","a","t","e","g","r","e","y">> :> <<"d","a","r","k","s","l","a","t","e","g","r","e","y">> @@
    <<"g","a","i","n","s","b","o","r","o">> :> <<"g","a","i","n","s","b","o","r","o">> @@
    <<"w","h","i","t","e","s","m","o","k","e">> :> <<"w","h","i","t","e","s","m","o","k","e">> @@
    <<"s","i","l","v","e","r">> :> <<"s","i","l","v","e","r">> @@
    <<"w","h","i","t","e">> :> <<"w","h","i","t","e">> @@
    <<"g","h","o","s","t","w","h","i","t","e">> :> <<"g","h","o","s","t","w","h","i","t","e">> @@
    <<"s","n","o","w">> :> <<"s","n","o","w">> @@
    <<"h","o","n","e","y","d","e","w">> :> <<"h","o","n","e","y","d","e","w">> @@
    <<"m","i","n","t","c","r","e","a","m">> :> <<"m","i","n","t","c","r","e","a","m">> @@
    <<"a","z","u","r","e">> :> <<"a","z","u","r","e">> @@
    <<"a","l","i","c","e","b","l","u","e">> :> <<"a","l","i","c","e","b","l","u","e">> @@
    <<"f","l","o","r","a","l","w","h","i","t","e">> :> <<"f","l","o","r","a","l","w","h","i","t","e">> @@
    <<"s","e","a","s","h","e","l","l">> :> <<"s","e","a","s","h","e","l","l">> @@
    <<"o","l","d","l","a","c","e">> :> <<"o","l","d","l","a","c","e">> @@
    <<"i","v","o","r","y">> :> <<"i","v","o","r","y">> @@
    <<"l","a","v","e","n","d","e","r","b","l","u","s","h">> :> <<"l","a","v","e","n","d","e","r","b","l","u","s","h">> @@
    <<"l","i","n","e","n">> :> <<"l","i","n","e","n">> @@
    <<"m","i","s","t","y","r","o","s","e">> :> <<"m","i","s","t","y","r","o","s","e">> @@
    <<"a","n","t","i","q","u","e","w","h","i","t","e">> :> <<"a","n","t","i","q","u","e","w","h","i","t","e">> @@
    <<"b","i","s","q","u","e">> :> <<"b","i","s","q","u","e">> @@
    <<"b","l","a","n","c","h","e","d","a","l","m","o","n","d">> :> <<"b","l","a","n","c","h","e","d","a","l","m","o","n","d">> @@
    <<"w","h","e","a","t">> :> <<"w","h","e","a","t">> @@
    <<"c","o","r","n","s","i","l","k">> :> <<"c","o","r","n","s","i","l","k">> @@
    <<"b","r","o","w","n">> :> <<"b","r","o","w","n">> @@
    <<"s","a","d","d","l","e","b","r","o","w","n">> :> <<"s","a","d","d","l","e","b","r","o","w","n">> @@
    <<"s","i","e","n","n","a">> :> <<"s","i","e","n","n","a">> @@
    <<"c","h","o","c","o","l","a","t","e">> :> <<"c","h","o","c","o","l","a","t","e">> @@
    <<"p","e","r","u">> :> <<"p","e","r","u">> @@
    <<"s","a","n","d","y","b","r","o","w","n">> :> <<"s","a","n","d","y","b","r","o","w","n">> @@
    <<"b","u","r","l","y","w","o","o","d">> :> <<"b","u","r","l","y","w","o","o","d">> @@
    <<"t","a","n">> :> <<"t","a","n">> @@
    <<"r","o","s","y","b","r","o","w","n">> :> <<"r","o","s","y","b","r","o","w","n">>

\* the functions print_<c>_back the module defines: c, and the d of the
\* function print_<d> each calls
PRINT_BACK_FUNCTIONS ==
    <<"i","n","d","i","a","n","r","e","d">> :> <<"i","n","d","i","a","n","r","e","d">> @@
    <<"l","i","g","h","t","c","o","r","a","l">> :> <<"l","i","g","h","t","c","o","r","a","l">> @@
    <<"s","a","l","m","o","n">> :> <<"s","a","l","m","o","n">> @@
    <<"d","a","r","k","s","a","l","m","o","n">> :> <<"d","a","r","k","s","a","l","m","o","n">> @@
    <<"l","i","g","h","t","s","a","l","m","o","n">> :> <<"l","i","g","h","t","s","a","l","m","o","n">> @@
    <<"c","r","i","m","s","o","n">> :> <<"c","r","i","m","s","o","n">> @@
    <<"r","e","d">> :> <<"r","e","d">> @@
    <<"f","i","r","e","b","r","i","c","k">> :> <<"f","i","r","e","b","r","i","c","k">> @@
    <<"d","a","r","k","r","e","d">> :> <<"d","a","r","k","r","e","d">> @@
    <<"p","i","n","k">> :> <<"p","i","n","k">> @@
    <<"l","i","g","h","t","p","i","n","k">> :> <<"l","i","g","h","t","p","i","n","k">> @@
    <<"h","o","t","p","i","n","k">> :> <<"h","o","t","p","i","n","k">> @@
    <<"d","e","e","p","p","i","n","k">> :> <<"d","e","e","p","p","i","n","k">> @@
    <<"m","e","d","i","u","m","v","i","o","l","e","t","r","e","d">> :> <<"m","e","d","i","u","m","v","i","o","l","e","t","r","e","d">> @@
    <<"p","a","l","e","v","i","o","l","e","t","r","e","d">> :> <<"p","a","l","e","v","i","o","l","e","t","r","e","d">> @@
    <<"c","o","r","a","l">> :> <<"c","o","r","a","l">> @@
    <<"t","o","m","a","t","o">> :> <<"t","o","m","a","t","o">> @@
    <<"o","r","a","n","g","e","r","e","d">> :> <<"o","r","a","n","g","e","r","e","d">> @@
    <<"d","a","r","k","o","r","a","n","g","e">> :> <<"d","a","r","k","o","r","a","n","g","e">> @@
    <<"o","r","a","n","g","e">> :> <<"o","r","a","n","g","e">> @@
    <<"g","o","l","d">> :> <<"g","o","l","d">> @@
    <<"y","e","l","l","o","w">> :> <<"y","e","l","l","o","w">> @@
    <<"l","i","g","h","t","y","e","l","l","o","w">> :> <<"l","i","g","h","t","y","e","l","l","o","w">> @@
    <<"l","e","m","o","n","c","h","i","f","f","o","n">> :> <<"l","e","m","o","n","c","h","i","f","f","o","n">> @@
    <<"l","i","g","h","t","g","o","l","d","e","n","r","o","d","y","e","l","l","o","w">> :> <<"l","i","g","h","t","g","o","l","d","e","n","r","o","d","y","e","l","l","o","w">> @@
    <<"p","a","p","a","y","a","w","h","i","p">> :> <<"p","a","p","a","y","a","w","h","i","p">> @@
    <<"m","o","c","c","a","s","i","n">> :> <<"m","o","c","c","a","s","i","n">> @@
    <<"p","e","a","c","h","p","u","f","f">> :> <<"p","e","a","c","h","p","u","f","f">> @@
    <<"p","a","l","e","g","o","l","d","e","n","r","o","d">> :> <<"p","a","l","e","g","o","l","d","e","n","r","o","d">> @@
    <<"k","h","a","k","i">> :> <<"k","h","a","k","i">> @@
    <<"d","a","r","k","k","h","a","k","i">> :> <<"d","a","r","k","k","h","a","k","i">> @@
    <<"l","a","v","e","n","d","e","r">> :> <<"l","a","v","e","n","d","e","r">> @@
    <<"t","h","i","s","t","l","e">> :> <<"t","h","i","s","t","l","e">> @@
    <<"p","l","u","m">> :> <<"p","l","u","m">> @@
    <<"v","i","o","l","e","t">> :> <<"v","i","o","l","e","t">> @@
    <<"o","r","c","h","i","d">> :> <<"o","r","c","h","i","d">> @@
    <<"f","u","c","h","s","i","a">> :> <<"f","u","c","h","s","i","a">> @@
    <<"m","a","g","e","n","t","a">> :> <<"m","a","g","e","n","t","a">> @@
    <<"m","e","d","i","u","m","o","r","c","h","i","d">> :> <<"m","e","d","i","u","m","o","r","c","h","i","d">> @@
    <<"m","e","d","i","u","m","p","u","r","p","l","e">> :> <<"m","e","d","i","u","m","p","u","r","p","l","e">> @@
    <<"r","e","b","e","c","c","a","p","u","r","p","l","e">> :> <<"r","e","b","e","c","c","a","p","u","r","p","l","e">> @@
    <<"b","l","u","e","v","i","o","l","e","t">> :> <<"b","l","u","e","v","i","o","l","e","t">> @@
    <<"d","a","r","k","v","i","o","l","e","t">> :> <<"d","a","r","k","v","i","o","l","e","t">> @@
    <<"d","a","r","k","o","r","c","h","i","d">> :> <<"d","a","r","k","o","r","c","h","i","d">> @@
    <<"d","a","r","k","m","a","g","e","n","t","a">> :> <<"d","a","r","k","m","a","g","e","n","t","a">> @@
    <<"p","u","r","p","l","e">> :> <<"p","u","r","p","l","e">> @@
    <<"i","n","d","i","g","o">> :> <<"i","n","d","i","g","o">> @@
    <<"s","l","a","t","e","b","l","u","e">> :> <<"s","l","a","t","e","b","l","u","e">> @@
    <<"d","a","r","k","s","l","a","t","e","b","l","u","e">> :> <<"d","a","r","k","s","l","a","t","e","b","l","u","e">> @@
    <<"m","e","d","i","u","m","s","l","a","t","e","b","l","u","e">> :> <<"m","e","d","i","u","m","s","l","a","t","e","b","l","u","e">> @@
    <<"g","r","e","e","n","y","e","l","l","o","w">> :> <<"g","r","e","e","n","y","e","l","l","o","w">> @@
    <<"c","h","a","r","t","r","e","u","s","e">> :> <<"c","h","a","r","t","r","e","u","s","e">> @@
    <<"l","a","w","n","g","r","e","e","n">> :> <<"l","a","w","n","g","r","e","e","n">> @@
    <<"l","i","m","e">> :> <<"l","i","m","e">> @@
    <<"l","i","m","e","g","r","e","e","n">> :> <<"l","i","m","e","g","r","e","e","n">> @@
    <<"p","a","l","e","g","r","e","e","n">> :> <<"p","a","l","e","g","r","e","e","n">> @@
    <<"l","i","g","h","t","g","r","e","e","n">> :> <<"l","i","g","h","t","g","r","e","e","n">> @@
    <<"m","e","d","i","u","m","s","p","r","i","n","g","g","r","e","e","n">> :> <<"m","e","d","i","u","m","s","p","r","i","n","g","g","r","e","e","n">> @@
    <<"s","p","r","i","n","g","g","r","e","e","n">> :> <<"s","p","r","i","n","g","g","r","e","e","n">> @@
    <<"m","e","d","i","u","m","s","e","a","g","r","e","e","n">> :> <<"m","e","d","i","u","m","s","e","a","g","r","e","e","n">> @@
    <<"s","e","a","g","r","e","e","n">> :> <<"s","e","a","g","r","e","e","n">> @@
    <<"f","o","r","e","s","t","g","r","e","e","n">> :> <<"f","o","r","e","s","t","g","r","e","e","n">> @@
    <<"g","r","e","e","n">> :> <<"g","r","e","e","n">> @@
    <<"d","a","r","k","g","r","e","e","n">> :> <<"d","a","r","k","g","r","e","e","n">> @@
    <<"y","e","l","l","o","w","g","r","e","e","n">> :> <<"y","e","l","l","o","w","g","r","e","e","n">> @@
    <<"o","l","i","v","e","d","r","a","b">> :> <<"o","l","i","v","e","d","r","a","b">> @@
    <<"o","l","i","v","e">> :> <<"o","l","i","v","e">> @@
    <<"d","a","r","k","o","l","i","v","e","g","r","e","e","n">> :> <<"d","a","r","k","o","l","i","v","e","g","r","e","e","n">> @@
    <<"m","e","d","i","u","m","a","q","u","a","m","a","r","i","n","e">> :> <<"m","e","d","i","u","m","a","q","u","a","m","a","r","i","n","e">> @@
    <<"d","a","r","k","s","e","a","g","r","e","e","n">> :> <<"d","a","r","k","s","e","a","g","r","e","e","n">> @@
    <<"l","i","g","h","t","s","e","a","g","r","e","e","n">> :> <<"l","i","g","h","t","s","e","a","g","r","e","e","n">> @@
    <<"d","a","r","k","c","y","a","n">> :> <<"d","a","r","k","c","y","a","n">> @@
    <<"t","e","a","l">> :> <<"t","e","a","l">> @@
    <<"a","q","u","a">> :> <<"a","q","u","a">> @@
    <<"c","y","a","n">> :> <<"c","y","a","n">> @@
    <<"l","i","g","h","t","c","y","a","n">> :> <<"l","i","g","h","t","c","y","a","n">> @@
    <<"p","a","l","e","t","u","r","q","u","o","i","s","e">> :> <<"p","a","l","e","t","u","r","q","u","o","i","s","e">> @@
    <<"a","q","u","a","m","a","r","i","n","e">> :> <<"a","q","u","a","m","a","r","i","n","e">> @@
    <<"t","u","r","q","u","o","i","s","e">> :> <<"t","u","r","q","u","o","i","s","e">> @@
    <<"m","e","d","i","u","m","t","u","r","q","u","o","i","s","e">> :> <<"m","e","d","i","u","m","t","u","r","q","u","o","i","s","e">> @@
    <<"d","a","r","k","t","u","r","q","u","o","i","s","e">> :> <<"d","a","r","k","t","u","r","q","u","o","i","s","e">> @@
    <<"c","a","d","e","t","b","l","u","e">> :> <<"c","a","d","e","t","b","l","u","e">> @@
    <<"s","t","e","e","l","b","l","u","e">> :> <<"s","t","e","e","l","b","l","u","e">> @@
    <<"l","i","g","h","t","s","t","e","e","l","b","l","u","e">> :> <<"l","i","g","h","t","s","t","e","e","l","b","l","u","e">> @@
    <<"p","o","w","d","e","r","b","l","u","e">> :> <<"p","o","w","d","e","r","b","l","u","e">> @@
    <<"l","i","g","h","t","b","l","u","e">> :> <<"l","i","g","h","t","b","l","u","e">> @@
    <<"s","k","y","b","l","u","e">> :> <<"s","k","y","b","l","u","e">> @@
    <<"l","i","g","h","t","s","k","y","b","l","u","e">> :> <<"l","i","g","h","t","s","k","y","b","l","u","e">> @@
    <<"d","e","e","p","s","k","y","b","l","u","e">> :> <<"d","e","e","p","s","k","y","b","l","u","e">> @@
    <<"d","o","d","g","e","r","b","l","u","e">> :> <<"d","o","d","g","e","r","b","l","u","e">> @@
    <<"c","o","r","n","f","l","o","w","e","r","b","l","u","e">> :> <<"c","o","r","n","f","l","o","w","e","r","b","l","u","e">> @@
    <<"r","o","y","a","l","b","l","u","e">> :> <<"r","o","y","a","l","b","l","u","e">> @@
    <<"b","l","u","e">> :> <<"b","l","u","e">> @@
    <<"m","e","d","i","u","m","b","l","u","e">> :> <<"m","e","d","i","u","m","b","l","u","e">> @@
    <<"d","a","r","k","b","l","u","e">> :> <<"d","a","r","k","b","l","u","e">> @@
    <<"n","a","v","y">> :> <<"n","a","v","y">> @@
    <<"m","i","d","n","i","g","h","t","b","l","u","e">> :> <<"m","i","d","n","i","g","h","t","b","l","u","e">> @@
    <<"d","a","r","k","g","r","a","y">> :> <<"d","a","r","k","g","r","a","y">> @@
    <<"d","a","r","k","g","r","e","y">> :> <<"d","a","r","k","g","r","e","y">> @@
    <<"d","i","m","g","r","a","y">> :> <<"d","i","m","g","r","a","y">> @@
    <<"d","i","m","g","r","e","y">> :> <<"d","i","m","g","r","e","y">> @@
    <<"l","i","g","h","t","s","l","a","t","e","g","r","a","y">> :> <<"l","i","g","h","t","s","l","a","t","e","g","r","a","y">> @@
    <<"l","i","g","h","t","s","l","a","t","e","g","r","e","y">> :> <<"l","i","g","h","t","s","l","a","t","e","g","r","e","y">> @@
    <<"l","i","g","h","t","g","r","a","y">> :> <<"l","i","g","h","t","g","r","a","y">> @@
    <<"l","i","g","h","t","g","r","e","y">> :> <<"l","i","g","h","t","g","r","e","y">> @@
    <<"s","l","a","t","e","g","r","a","y">> :> <<"s","l","a","t","e","g","r","a","y">> @@
    <<"s","l","a","t","e","g","r","e","y">> :> <<"s","l","a","t","e","g","r","e","y">> @@
    <<"g","r","a","y">> :> <<"g","r","a","y">> @@
    <<"g","r","e","y">> :> <<"g","r","e","y">> @@
    <<"d","a","r","k","s","l","a","t","e","g","r","a","y">> :> <<"d","a","r","k","s","l","a","t","e","g","r","a","y">> @@
    <<"d","a","r","k","s","l","a","t","e","g","r","e","y">> :> <<"d","a","r","k","s","l","a","t","e","g","r","e","y">> @@
    <<"g","a","i","n","s","b","o","r","o">> :> <<"g","a","i","n","s","b","o","r","o">> @@
    <<"w","h","i","t","e","s","m","o","k","e">> :> <<"w","h","i","t","e","s","m","o","k","e">> @@
    <<"s","i","l","v","e","r">> :> <<"s","i","l","v","e","r">> @@
    <<"w","h","i","t","e">> :> <<"w","h","i","t","e">> @@
    <<"g","h","o","s","t","w","h","i","t","e">> :> <<"g","h","o","s","t","w","h","i","t","e">> @@
    <<"s","n","o","w">> :> <<"s","n","o","w">> @@
    <<"h","o","n","e","y","d","e","w">> :> <<"h","o","n","e","y","d","e","w">> @@
    <<"m","i","n","t","c","r","e","a","m">> :> <<"m","i","n","t","c","r","e","a","m">> @@
    <<"a","z","u","r","e">> :> <<"a","z","u","r","e">> @@
    <<"a","l","i","c","e","b","l","u","e">> :> <<"a","l","i","c","e","b","l","u","e">> @@
    <<"f","l","o","r","a","l","w","h","i","t","e">> :> <<"f","l","o","r","a","l","w","h","i","t","e">> @@
    <<"s","e","a","s","h","e","l","l">> :> <<"s","e","a","s","h","e","l","l">> @@
    <<"o","l","d","l","a","c","e">> :> <<"o","l","d","l","a","c","e">> @@
    <<"i","v","o","r","y">> :> <<"i","v","o","r","y">> @@
    <<"l","a","v","e","n","d","e","r","b","l","u","s","h">> :> <<"l","a","v","e","n","d","e","r","b","l","u","s","h">> @@
    <<"l","i","n","e","n">> :> <<"l","i","n","e","n">> @@
    <<"m","i","s","t","y","r","o","s","e">> :> <<"m","i","s","t","y","r","o","s","e">> @@
    <<"a","n","t","i","q","u","e","w","h","i","t","e">> :> <<"a","n","t","i","q","u","e","w","h","i","t","e">> @@
    <<"b","i","s","q","u","e">> :> <<"b","i","s","q","u","e">> @@
    <<"b","l","a","n","c","h","e","d","a","l","m","o","n","d">> :> <<"b","l","a","n","c","h","e","d","a","l","m","o","n","d">> @@
    <<"w","h","e","a","t">> :> <<"w","h","e","a","t">> @@
    <<"c","o","r","n","s","i","l","k">> :> <<"c","o","r","n","s","i","l","k">> @@
    <<"b","r","o","w","n">> :> <<"b","r","o","w","n">> @@
    <<"s","a","d","d","l","e","b","r","o","w","n">> :> <<"s","a","d","d","l","e","b","r","o","w","n">> @@
    <<"s","i","e","n","n","a">> :> <<"s","i","e","n","n","a">> @@
    <<"c","h","o","c","o","l","a","t","e">> :> <<"c","h","o","c","o","l","a","t","e">> @@
    <<"p","e","r","u">> :> <<"p","e","r","u">> @@
    <<"s","a","n","d","y","b","r","o","w","n">> :> <<"s","a","n","d","y","b","r","o","w","n">> @@
    <<"b","u","r","l","y","w","o","o","d">> :> <<"b","u","r","l","y","w","o","o","d">> @@
    <<"t","a","n">> :> <<"t","a","n">> @@
    <<"r","o","s","y","b","r","o","w","n">> :> <<"r","o","s","y","b","r","o","w","n">>
(***************************************************************************)
(* core.py: the module-level functions and the printer they share.         *)
(***************************************************************************)
\* _color_printer = None
None == 0

\* faulty variant, for the sensitivity of the properties: a ColorPrinter
\* constructed on every call
check_printer_obj_always_new(cp, n) == [printer |-> n + 1, constructed |-> n + 1]

\* _check_printer_obj() when _color_printer is cp and n instances have been
\* constructed: the printer it returns and leaves in _color_printer, and
\* the number of instances constructed after it
check_printer_obj(cp, n) ==
    IF cp = None
    THEN [printer |-> n + 1, constructed |-> n + 1]
    ELSE [printer |-> cp, constructed |-> n]

\* the functions print_bold ... print_reset, in the order of the file
StyleWrappers ==
    {"core.print_bold", "core.print_italic", "core.print_underline",
     "core.print_strikethrough", "core.print_dim", "core.print_blink",
     "core.print_inverse", "core.print_hidden", "core.print_reset"}

\* the flag each of them passes as True
WrapperFlags(op) ==
    CASE op = "core.print_bold" -> {BOLD}
      [] op = "core.print_italic" -> {ITALIC}
      [] op = "core.print_underline" -> {UNDERLINE}
      [] op = "core.print_strikethrough" -> {STRIKETHROUGH}
      [] op = "core.print_dim" -> {DIM}
      [] op = "core.print_blink" -> {BLINK}
      [] op = "core.print_inverse" -> {INVERSE}
      [] op = "core.print_hidden" -> {HIDDEN}
      [] op = "core.print_reset" -> {}

\* the reset each of them passes on: print_blink, print_inverse,
\* print_hidden and print_reset pass reset=True whatever the caller gave
WrapperReset(op, reset) ==
    IF op \in {"core.print_blink", "core.print_inverse", "core.print_hidden",
               "core.print_reset"}
    THEN TRUE
    ELSE reset

\* print_bold(*objects, sep, end, reset) and the eight like it
print_style(op, objects, sep, end, reset) ==
    print_formatted(objects, sep, end, WrapperFlags(op), <<>>, <<>>,
                    WrapperReset(op, reset))

\* core.print_formatted(*objects, sep, end, bold, ..., color, back_color):
\* it passes no reset on, so the method's default applies
core_print_formatted(objects, sep, end, flags, color, back_color) ==
    print_formatted(objects, sep, end, flags, color, back_color,
                    DefaultReset("print_formatted"))

\* core.print_rgb(*objects, sep, end, reset, r, g, b, background)
core_print_rgb(objects, sep, end, reset, r, g, b, background) ==
    print_rgb(objects, sep, end, reset, r, g, b, background)

\* core.print_color(*objects, color, sep, end, reset, background)
core_print_color(objects, color, sep, end, reset, background) ==
    print_color(objects, sep, end, color, background, reset)

\* print_<c>(*objects, sep, end, background): print_color with the colour
\* constant of the function and reset=True; a name the module does not
\* define raises NameError where it is called
print_c(c, objects, sep, end, background) ==
    IF c \in DOMAIN PRINT_FUNCTIONS
    THEN core_print_color(objects, PRINT_FUNCTIONS[c], sep, end, TRUE, background)
    ELSE [raised |-> "NameError", written |-> <<>>, ansi |-> <<>>]

\* print_<c>_back(*objects, sep, end): it calls its print_<d> with sep=' '
\* and end='\n' spelled out, not with its own sep and end
print_c_back(c, objects, sep, end) ==
    IF c \in DOMAIN PRINT_BACK_FUNCTIONS
    THEN print_c(PRINT_BACK_FUNCTIONS[c], objects, <<" ">>, <<"\n">>, TRUE)
    ELSE [raised |-> "NameError", written |-> <<>>, ansi |-> <<>>]

\* globals()[name] for the names "print_" + c and "print_" + c + "_back"
HasGlobals(c) == c \in DOMAIN PRINT_FUNCTIONS /\ c \in DOMAIN PRINT_BACK_FUNCTIONS

\* the keywords a call binds: core.print_formatted has no parameter reset,
\* so a call that passes reset raises TypeError before its body runs
Binds(c) == ~(c.op = "core.print_formatted" /\ ~c.omitted.reset)

(***************************************************************************)
(* core.py: print_all_color_options and print_all_format_options.          *)
(***************************************************************************)
\* the keys of COLOR_RGB in the order the dict holds them, which is the
\* order a for loop over it takes
ColorOrder ==
    << <<"a", "l", "i", "c", "e", "b", "l", "u", "e">>, <<"a", "n", "t", "i",
       "q", "u", "e", "w", "h", "i", "t", "e">>, <<"a", "q", "u", "a">>, <<"a",
       "q", "u", "a", "m", "a", "r", "i", "n", "e">>, <<"a", "z", "u", "r",
       "e">>, <<"b", "i", "s", "q", "u", "e">>, <<"b", "l", "a", "n", "c", "h",
       "e", "d", "a", "l", "m", "o", "n", "d">>, <<"b", "l", "u", "e">>, <<"b",
       "l", "u", "e", "v", "i", "o", "l", "e", "t">>, <<"b", "r", "o", "w",
       "n">>, <<"b", "u", "r", "l", "y", "w", "o", "o", "d">>, <<"c", "a", "d",
       "e", "t", "b", "l", "u", "e">>, <<"c", "h", "a", "r", "t", "r", "e", "u",
       "s", "e">>, <<"c", "h", "o", "c", "o", "l", "a", "t", "e">>, <<"c", "o",
       "r", "a", "l">>, <<"c", "o", "r", "n", "f", "l", "o", "w", "e", "r", "b",
       "l", "u", "e">>, <<"c", "o", "r", "n", "s", "i", "l", "k">>, <<"c", "r",
       "i", "m", "s", "o", "n">>, <<"c", "y", "a", "n">>, <<"d", "a", "r", "k",
       "b", "l", "u", "e">>, <<"d", "a", "r", "k", "c", "y", "a", "n">>, <<"d",
       "a", "r", "k", "g", "r", "a", "y">>, <<"d", "a", "r", "k", "g", "r", "e",
       "e", "n">>, <<"d", "a", "r", "k", "g", "r", "e", "y">>, <<"d", "a", "r",
       "k", "k", "h", "a", "k", "i">>, <<"d", "a", "r", "k", "m", "a", "g", "e",
       "n", "t", "a">>, <<"d", "a", "r", "k", "o", "l", "i", "v", "e", "g", "r",
       "e", "e", "n">>, <<"d", "a", "r", "k", "o", "r", "a", "n", "g", "e">>,
       <<"d", "a", "r", "k", "o", "r", "c", "h", "i", "d">>, <<"d", "a", "r",
       "k", "r", "e", "d">>, <<"d", "a", "r", "k", "s", "a", "l", "m", "o",
       "n">>, <<"d", "a", "r", "k", "s", "e", "a", "g", "r", "e", "e", "n">>,
       <<"d", "a", "r", "k", "s", "l", "a", "t", "e", "b", "l", "u", "e">>,
       <<"d", "a", "r", "k", "s", "l", "a", "t", "e", "g", "r", "a", "y">>,
       <<"d", "a", "r", "k", "s", "l", "a", "t", "e", "g", "r", "e", "y">>,
       <<"d", "a", "r", "k", "t", "u", "r", "q", "u", "o", "i", "s", "e">>,
       <<"d", "a", "r", "k", "v", "i", "o", "l", "e", "t">>, <<"d", "e", "e",
       "p", "p", "i", "n", "k">>, <<"d", "e", "e", "p", "s", "k", "y", "b", "l",
       "u", "e">>, <<"d", "i", "m", "g", "r", "a", "y">>, <<"d", "i", "m", "g",
       "r", "e", "y">>, <<"d", "o", "d", "g", "e", "r", "b", "l", "u", "e">>,
       <<"f", "i", "r", "e", "b", "r", "i", "c", "k">>, <<"f", "l", "o", "r",
       "a", "l", "w", "h", "i", "t", "e">>, <<"f", "o", "r", "e", "s", "t", "g",
       "r", "e", "e", "n">>, <<"f", "u", "c", "h", "s", "i", "a">>, <<"g", "a",
       "i", "n", "s", "b", "o", "r", "o">>, <<"g", "h", "o", "s", "t", "w", "h",
       "i", "t", "e">>, <<"g", "o", "l", "d">>, <<"g", "r", "a", "y">>, <<"g",
       "r", "e", "e", "n">>, <<"g", "r", "e", "e", "n", "y", "e", "l", "l", "o",
       "w">>, <<"g", "r", "e", "y">>, <<"h", "o", "n", "e", "y", "d", "e", "w">>,
       <<"h", "o", "t", "p", "i", "n", "k">>, <<"i", "n", "d", "i", "a", "n",
       "r", "e", "d">>, <<"i", "n", "d", "i", "g", "o">>, <<"i", "v", "o", "r",
       "y">>, <<"k", "h", "a", "k", "i">>, <<"l", "a", "v", "e", "n", "d", "e",
       "r">>, <<"l", "a", "v", "e", "n", "d", "e", "r", "b", "l", "u", "s",
       "h">>, <<"l", "a", "w", "n", "g", "r", "e", "e", "n">>, <<"l", "e", "m",
       "o", "n", "c", "h", "i", "f", "f", "o", "n">>, <<"l", "i", "g", "h", "t",
       "b", "l", "u", "e">>, <<"l", "i", "g", "h", "t", "c", "o", "r", "a",
       "l">>, <<"l", "i", "g", "h", "t", "c", "y", "a", "n">>, <<"l", "i", "g",
       "h", "t", "g", "o", "l", "d", "e", "n", "r", "o", "d", "y", "e", "l", "l",
       "o", "w">>, <<"l", "i", "g", "h", "t", "g", "r", "a", "y">>, <<"l", "i",
       "g", "h", "t", "g", "r", "e", "e", "n">>, <<"l", "i", "g", "h", "t", "g",
       "r", "e", "y">>, <<"l", "i", "g", "h", "t", "p", "i", "n", "k">>, <<"l",
       "i", "g", "h", "t", "s", "a", "l", "m", "o", "n">>, <<"l", "i", "g", "h",
       "t", "s", "e", "a", "g", "r", "e", "e", "n">>, <<"l", "i", "g", "h", "t",
       "s", "k", "y", "b", "l", "u", "e">>, <<"l", "i", "g", "h", "t", "s", "l",
       "a", "t", "e", "g", "r", "a", "y">>, <<"l", "i", "g", "h", "t", "s", "l",
       "a", "t", "e", "g", "r", "e", "y">>, <<"l", "i", "g", "h", "t", "s", "t",
       "e", "e", "l", "b", "l", "u", "e">>, <<"l", "i", "g", "h", "t", "y", "e",
       "l", "l", "o", "w">>, <<"l", "i", "m", "e">>, <<"l", "i", "m", "e", "g",
       "r", "e", "e", "n">>, <<"l", "i", "n", "e", "n">>, <<"m", "a", "g", "e",
       "n", "t", "a">>, <<"m", "e", "d", "i", "u", "m", "a", "q", "u", "a", "m",
       "a", "r", "i", "n", "e">>, <<"m", "e", "d", "i", "u", "m", "b", "l", "u",
       "e">>, <<"m", "e", "d", "i", "u", "m", "o", "r", "c", "h", "i", "d">>,
       <<"m", "e", "d", "i", "u", "m", "p", "u", "r", "p", "l", "e">>, <<"m",
       "e", "d", "i", "u", "m", "s", "e", "a", "g", "r", "e", "e", "n">>, <<"m",
       "e", "d", "i", "u", "m", "s", "l", "a", "t", "e", "b", "l", "u", "e">>,
       <<"m", "e", "d", "i", "u", "m", "s", "p", "r", "i", "n", "g", "g", "r",
       "e", "e", "n">>, <<"m", "e", "d", "i", "u", "m", "t", "u", "r", "q", "u",
       "o", "i", "s", "e">>, <<"m", "e", "d", "i", "u", "m", "v", "i", "o", "l",
       "e", "t", "r", "e", "d">>, <<"m", "i", "d", "n", "i", "g", "h", "t", "b",
       "l", "u", "e">>, <<"m", "i", "n", "t", "c", "r", "e", "a", "m">>, <<"m",
       "i", "s", "t", "y", "r", "o", "s", "e">>, <<"m", "o", "c", "c", "a", "s",
       "i", "n">>, <<"n", "a", "v", "y">>, <<"o", "l", "d", "l", "a", "c", "e">>,
       <<"o", "l", "i", "v", "e">>, <<"o", "l", "i", "v", "e", "d", "r", "a",
       "b">>, <<"o", "r", "a", "n", "g", "e">>, <<"o", "r", "a", "n", "g", "e",
       "r", "e", "d">>, <<"o", "r", "c", "h", "i", "d">>, <<"p", "a", "l", "e",
       "g", "o", "l", "d", "e", "n", "r", "o", "d">>, <<"p", "a", "l", "e", "g",
       "r", "e", "e", "n">>, <<"p", "a", "l", "e", "t", "u", "r", "q", "u", "o",
       "i", "s", "e">>, <<"p", "a", "l", "e", "v", "i", "o", "l", "e", "t", "r",
       "e", "d">>, <<"p", "a", "p", "a", "y", "a", "w", "h", "i", "p">>, <<"p",
       "e", "a", "c", "h", "p", "u", "f", "f">>, <<"p", "e", "r", "u">>, <<"p",
       "i", "n", "k">>, <<"p", "l", "u", "m">>, <<"p", "o", "w", "d", "e", "r",
       "b", "l", "u", "e">>, <<"p", "u", "r", "p", "l", "e">>, <<"r", "e", "b",
       "e", "c", "c", "a", "p", "u", "r", "p", "l", "e">>, <<"r", "e", "d">>,
       <<"r", "o", "s", "y", "b", "r", "o", "w", "n">>, <<"r", "o", "y", "a",
       "l", "b", "l", "u", "e">>, <<"s", "a", "d", "d", "l", "e", "b", "r", "o",
       "w", "n">>, <<"s", "a", "l", "m", "o", "n">>, <<"s", "a", "n", "d", "y",
       "b", "r", "o", "w", "n">>, <<"s", "e", "a", "g", "r", "e", "e", "n">>,
       <<"s", "e", "a", "s", "h", "e", "l", "l">>, <<"s", "i", "e", "n", "n",
       "a">>, <<"s", "i", "l", "v", "e", "r">>, <<"s", "k", "y", "b", "l", "u",
       "e">>, <<"s", "l", "a", "t", "e", "b", "l", "u", "e">>, <<"s", "l", "a",
       "t", "e", "g", "r", "a", "y">>, <<"s", "l", "a", "t", "e", "g", "r", "e",
       "y">>, <<"s", "n", "o", "w">>, <<"s", "p", "r", "i", "n", "g", "g", "r",
       "e", "e", "n">>, <<"s", "t", "e", "e", "l", "b", "l", "u", "e">>, <<"t",
       "a", "n">>, <<"t", "e", "a", "l">>, <<"t", "h", "i", "s", "t", "l", "e">>,
       <<"t", "o", "m", "a", "t", "o">>, <<"t", "u", "r", "q", "u", "o", "i",
       "s", "e">>, <<"v", "i", "o", "l", "e", "t">>, <<"w", "h", "e", "a", "t">>,
       <<"w", "h", "i", "t", "e">>, <<"w", "h", "i", "t", "e", "s", "m", "o",
       "k", "e">>, <<"y", "e", "l", "l", "o", "w">>, <<"y", "e", "l", "l", "o",
       "w", "g", "r", "e", "e", "n">> >>

\* the keys of FORMAT_CODES in the order the dict holds them
FormatOrder == <<RESET, BOLD, DIM, ITALIC, UNDERLINE, BLINK, INVERSE, HIDDEN, STRIKETHROUGH>>

\* the column headers of the two tables
ColorHeaders ==
    << <<"T", "E", "X", "T", " ", "C", "O", "L", "O", "R">>, <<"B", "A", "C",
       "K", "G", "R", "O", "U", "N", "D", " ", "C", "O", "L", "O", "R">>, <<"R",
       "G", "B">>, <<"P", "R", "I", "N", "T", " ", "F", "U", "N", "C", "T", "I",
       "O", "N">>, <<"B", "A", "C", "K", "G", "R", "O", "U", "N", "D", " ", "P",
       "R", "I", "N", "T", " ", "F", "U", "N", "C", "T", "I", "O", "N">> >>
ColorWidths == <<25, 25, 25, 35, 35>>
FormatHeaders ==
    << <<"F", "O", "R", "M", "A", "T", " ", "N", "A", "M", "E">>, <<"F", "O",
       "R", "M", "A", "T">>, <<"P", "R", "I", "N", "T", " ", "F", "O", "R", "M",
       "A", "T", " ", "F", "U", "N", "C", "T", "I", "O", "N">> >>
FormatWidths == <<20, 20, 30>>

\* s.ljust(width, ' ')
Ljust(s, width) ==
    IF Len(s) >= width THEN s ELSE s \o [i \in 1..(width - Len(s)) |-> " "]

\* '-' * n
Dashes(n) == [i \in 1..n |-> "-"]

\* str() of a tuple of three ints: "(r, g, b)"
TupleStr(rgb) ==
    <<"(">> \o Dec(rgb[1]) \o <<",", " ">> \o Dec(rgb[2]) \o <<",", " ">>
        \o Dec(rgb[3]) \o <<")">>

\* the header line: the headers, each padded to its column
RECURSIVE HeaderStr(_, _)
HeaderStr(headers, widths) ==
    IF headers = <<>> THEN <<>>
    ELSE Ljust(Head(headers), Head(widths)) \o HeaderStr(Tail(headers), Tail(widths))

\* one value of type str
Text(s) == <<[t |-> "str", s |-> s, n |-> 0]>>

\* the three samples that open the row of a colour, written before the
\* functions of the colour are looked up
ColorSamples(color) ==
    LET rgb == color_rgb[color]
    IN  print_rgb(Text(Ljust(color, ColorWidths[1])), DefaultSep, <<>>,
                  DefaultReset("print_rgb"), rgb[1], rgb[2], rgb[3], FALSE).written
        \o print_rgb(Text(Ljust(color, ColorWidths[2])), DefaultSep, <<>>,
                     DefaultReset("print_rgb"), rgb[1], rgb[2], rgb[3], TRUE).written
        \o print_rgb(Text(Ljust(<<"r", "g", "b">> \o TupleStr(rgb), ColorWidths[3])),
                     DefaultSep, <<>>, DefaultReset("print_rgb"),
                     rgb[1], rgb[2], rgb[3], FALSE).written

\* the text written for one colour by the body of the loop of
\* print_all_color_options
ColorRow(color, divider) ==
    LET funct == <<"p", "r", "i", "n", "t", "_">> \o color
    IN  ColorSamples(color)
        \o print_c(color, Text(Ljust(funct \o <<"(", ")">>, ColorWidths[4])),
                   DefaultSep, <<>>, FALSE).written
        \o print_c_back(color,
                        Text(Ljust(funct \o <<"_", "b", "a", "c", "k", "(", ")">>,
                                   ColorWidths[5])),
                        DefaultSep, DefaultEnd).written
        \o builtin_print(<<divider>>, DefaultSep, DefaultEnd)

\* the rows of colors[lo] ... colors[hi], in order
RECURSIVE ColorRows(_, _, _, _)
ColorRows(colors, lo, hi, divider) ==
    IF lo > hi THEN <<>>
    ELSE IF lo = hi THEN ColorRow(colors[lo], divider)
    ELSE LET mid == (lo + hi) \div 2
         IN  ColorRows(colors, lo, mid, divider)
                 \o ColorRows(colors, mid + 1, hi, divider)

\* print_all_color_options(): the header in bold, the divider, and a row
\* and the divider for every colour of the table; the loop ends with
\* KeyError at the first colour whose functions globals() does not hold
print_all_color_options ==
    LET header_str == HeaderStr(ColorHeaders, ColorWidths)
        divider_str == Dashes(Len(header_str))
        colors == SelectSeq(ColorOrder, LAMBDA c : c \in ColorKeys)
        missing == {i \in 1..Len(colors) : ~HasGlobals(colors[i])}
        head == print_style("core.print_bold", Text(header_str), DefaultSep,
                            DefaultEnd, DefaultReset("core.print_bold")).written
                \o builtin_print(<<divider_str>>, DefaultSep, DefaultEnd)
    IN  IF missing = {}
        THEN [raised |-> "none",
              written |-> head \o ColorRows(colors, 1, Len(colors), divider_str),
              ansi |-> <<>>]
        ELSE LET first == CHOOSE i \in missing : \A j \in missing : i <= j
             IN  [raised |-> "KeyError",
                  written |-> head \o ColorRows(colors, 1, first - 1, divider_str)
                                   \o ColorSamples(colors[first]),
                  ansi |-> <<>>]

\* the text written for one style by the body of the loop of
\* print_all_format_options
FormatRow(format_name, divider) ==
    LET ansi_codes == collect_codes(<<format_name>>)
        funct == <<"p", "r", "i", "n", "t", "_">> \o format_name \o <<"(", ")">>
    IN  builtin_print(<<Ljust(format_name, FormatWidths[1])>>, DefaultSep, <<>>)
        \o print_ansi(Text(Ljust(format_name, FormatWidths[2])), DefaultSep, <<>>,
                      TRUE, ansi_codes).written
        \o builtin_print(<<Ljust(funct, FormatWidths[3])>>, DefaultSep, DefaultEnd)
        \o builtin_print(<<divider>>, DefaultSep, DefaultEnd)

RECURSIVE FormatRows(_, _)
FormatRows(formats, divider) ==
    IF formats = <<>> THEN <<>>
    ELSE FormatRow(Head(formats), divider) \o FormatRows(Tail(formats), divider)

\* print_all_format_options()
print_all_format_options ==
    LET header_str == HeaderStr(FormatHeaders, FormatWidths)
        divider_str == Dashes(Len(header_str))
    IN  [raised |-> "none",
         written |-> print_style("core.print_bold", Text(header_str), DefaultSep,
                                 DefaultEnd, DefaultReset("core.print_bold")).written
                     \o builtin_print(<<divider_str>>, DefaultSep, DefaultEnd)
                     \o FormatRows(SelectSeq(FormatOrder, LAMBDA f : f \in FormatKeys),
                                   divider_str),
         ansi |-> <<>>]

(***************************************************************************)
(* The inputs the calls are drawn from.                                    *)
(***************************************************************************)
S(s) == [t |-> "str", s |-> s, n |-> 0]
I(n) == [t |-> "int", s |-> <<>>, n |-> n]

\* the i-th value of a call: "hi", 7, "hi", -7, ...
Object(i) ==
    IF i % 2 = 1 THEN S(<<"h", "i">>)
    ELSE IF i % 4 = 2 THEN I(7) ELSE I(-7)

\* the lists of values handed to a call: no value, "hi", "hi" 7, ...
ObjectLists == {[i \in 1..k |-> Object(i)] : k \in 0..MaxVals}

Seps == {<<" ">>, <<"-">>}
Ends == {<<"\n">>, <<>>}

\* separator and terminator as print_formatted, print_rgb and print_color
\* get them: the defaults, or both the caller's own (print_ansi, which
\* alone uses them, gets every combination)
Layouts == {[sep |-> <<" ">>, end |-> <<"\n">>], [sep |-> <<"-">>, end |-> <<>>]}

Styles == {StyleFlags[i] : i \in 1..Len(StyleFlags)}

red == <<"r", "e", "d">>
ultraviolet == <<"u", "l", "t", "r", "a", "v", "i", "o", "l", "e", "t">>

\* colour names handed to color / back_color
ColorArgs == {<<>>, red, <<" ", "R", "E", "D", " ">>, ultraviolet}

\* colour names handed to print_color
ColorNames ==
    ColorArgs \cup {DEFAULT_COLOR, BOLD, BACK_TAG \o red, <<"R", "e", "d">>,
                    <<"\t", "W", "h", "i", "t", "e", "\n">>}

\* entries of the list handed to collect_codes
FormatArgs == {BOLD, <<" ", "U", "n", "d", "e", "r", "l", "i", "n", "e">>, RESET,
               red, <<" ", "R", "E", "D", " ">>, BACK_TAG \o red, <<"B", "a", "c", "k", "_", "R", "e", "d">>,
               BACK_TAG \o BOLD, ultraviolet, <<>>}

FormatLists == UNION {[1..k -> FormatArgs] : k \in 0..MaxFormats}

\* components handed to print_rgb
Components == {-1, 0, 7, 255, 256}

\* lists handed to print_ansi as ansi_list (None is the empty list: the
\* method only tests it for truth)
AnsiLists == {<<>>, <<ANSI_BASE(<<"1">>)>>,
              <<ANSI_BASE(<<"1">>), RGB_FOREGROUND(255, 0, 0)>>}

\* label and url handed to print_hyperlink
Hyperlinks == {[text |-> <<"c", "l", "i", "c", "k">>,
                hyperlink |-> <<"h", "t", "t", "p", "s", ":", "/", "/", "x">>],
               [text |-> <<>>, hyperlink |-> <<>>]}

(***************************************************************************)
(* The state machine: one call at a time, from "idle" to "done" and back.  *)
(***************************************************************************)
NoCall ==
    [op |-> "none", objects |-> <<>>, sep |-> <<" ">>, end |-> <<"\n">>,
     reset |-> TRUE, flags |-> {}, color |-> <<>>, back_color |-> <<>>,
     r |-> 0, g |-> 0, b |-> 0, background |-> FALSE, ansi_list |-> <<>>,
     formats |-> <<>>, text |-> <<>>, hyperlink |-> <<>>,
     omitted |-> [reset |-> FALSE, flags |-> {}, other |-> FALSE]]

\* the threads that print at the same time
Threads == {1, 2}

\* a thread that has not made its call yet
NoThread ==
    [pc |-> "start", op |-> "none", objects |-> <<>>, is_none |-> FALSE,
     printer |-> 0, todo |-> <<>>, raised |-> "none"]

\* no call is remembered
NoMemo == [call |-> NoCall, raised |-> "none", written |-> <<>>, ansi |-> <<>>]

Init ==
    /\ pc = "idle"
    /\ call = NoCall
    /\ ansi_seq = <<>>
    /\ written = <<>>
    /\ raised = "none"
    /\ color_writes = {}
    /\ format_writes = {}
    /\ color_printer = 0
    /\ constructed = 0
    /\ earlier = {}
    /\ memo = NoMemo
    /\ threads = [t \in Threads |-> NoThread]
    /\ sink = <<>>

\* the call c ends with the result res
Finish(c, res) ==
    /\ pc' = "done"
    /\ call' = c
    /\ ansi_seq' = res.ansi
    /\ written' = res.written
    /\ raised' = res.raised
    /\ color_writes' = WritesAfter(c).colors
    /\ format_writes' = WritesAfter(c).formats
    /\ UNCHANGED <<earlier, memo, threads, sink>>

\* a method called on a ColorPrinter of the caller's own: the module's
\* shared printer is not involved
OwnPrinter == UNCHANGED <<color_printer, constructed>>

PrintAnsi ==
    /\ pc = "idle"
    /\ OwnPrinter
    /\ \E objects \in ObjectLists, sep \in Seps, end \in Ends,
          reset \in BOOLEAN, ansi_list \in AnsiLists :
          Finish([NoCall EXCEPT !.op = "print_ansi", !.objects = objects,
                                !.sep = sep, !.end = end, !.reset = reset,
                                !.ansi_list = ansi_list],
                 print_ansi(objects, sep, end, reset, ansi_list))

PrintFormatted ==
    /\ pc = "idle"
    /\ OwnPrinter
    /\ \E objects \in ObjectLists, layout \in Layouts,
          flags \in SUBSET Styles, color \in ColorArgs, back_color \in ColorArgs,
          reset \in BOOLEAN :
          Finish([NoCall EXCEPT !.op = "print_formatted", !.objects = objects,
                                !.sep = layout.sep, !.end = layout.end,
                                !.flags = flags, !.color = color,
                                !.back_color = back_color, !.reset = reset],
                 print_formatted(objects, layout.sep, layout.end, flags, color,
                                 back_color, reset))

PrintRgb ==
    /\ pc = "idle"
    /\ OwnPrinter
    /\ \E objects \in ObjectLists, layout \in Layouts, reset \in BOOLEAN,
          r \in Components, g \in Components, b \in Components,
          background \in BOOLEAN :
          Finish([NoCall EXCEPT !.op = "print_rgb", !.objects = objects,
                                !.sep = layout.sep, !.end = layout.end,
                                !.reset = reset, !.r = r, !.g = g, !.b = b,
                                !.background = background],
                 print_rgb(objects, layout.sep, layout.end, reset, r, g, b,
                           background))

PrintColor ==
    /\ pc = "idle"
    /\ OwnPrinter
    /\ \E objects \in ObjectLists, layout \in Layouts,
          color \in ColorNames, background \in BOOLEAN, reset \in BOOLEAN :
          Finish([NoCall EXCEPT !.op = "print_color", !.objects = objects,
                                !.sep = layout.sep, !.end = layout.end,
                                !.color = color, !.background = background,
                                !.reset = reset],
                 print_color(objects, layout.sep, layout.end, color, background,
                             reset))

PrintHyperlink ==
    /\ pc = "idle"
    /\ OwnPrinter
    /\ \E link \in Hyperlinks, end \in Ends,
          flags \in SUBSET Styles, color \in ColorArgs, back_color \in ColorArgs,
          reset \in BOOLEAN :
          Finish([NoCall EXCEPT !.op = "print_hyperlink", !.text = link.text,
                                !.hyperlink = link.hyperlink, !.end = end,
                                !.flags = flags, !.color = color,
                                !.back_color = back_color, !.reset = reset],
                 print_hyperlink(link.text, link.hyperlink, <<" ">>, end, flags, color,
                                 back_color, reset))

CollectCodes ==
    /\ pc = "idle"
    /\ OwnPrinter
    /\ \E formats \in FormatLists :
          Finish([NoCall EXCEPT !.op = "collect_codes", !.formats = formats],
                 [raised |-> "none", written |-> <<>>,
                  ansi |-> collect_codes(formats)])

\* the style flags a caller of PrintOmitting passes or leaves out
OmittableFlags == {BOLD, UNDERLINE}

\* a call that leaves keyword arguments out: reset and each style flag is
\* passed or left out; separator, terminator, colours and components are
\* left out. call.omitted says what was left out, the other fields of call
\* are the values the parameters are bound to.
PrintOmitting ==
    /\ pc = "idle"
    /\ OwnPrinter
    /\ \E op \in PrintMethods, omit_reset \in BOOLEAN, reset \in BOOLEAN :
       \E objects \in IF op = "print_hyperlink" THEN {<<>>} ELSE ObjectLists,
          link \in IF op = "print_hyperlink" THEN Hyperlinks
                   ELSE {[text |-> <<>>, hyperlink |-> <<>>]},
          passed \in IF op \in {"print_formatted", "print_hyperlink"}
                     THEN SUBSET OmittableFlags ELSE {{}} :
       \E on \in SUBSET passed :
          LET c == [NoCall EXCEPT
                      !.op = op, !.objects = objects, !.text = link.text,
                      !.hyperlink = link.hyperlink,
                      !.sep = DefaultSep, !.end = DefaultEnd,
                      !.reset = IF omit_reset THEN DefaultReset(op) ELSE reset,
                      !.flags = on \cup (DefaultFlags(op) \ passed),
                      !.color = DefaultColor(op), !.back_color = <<>>,
                      !.r = DefaultComponent, !.g = DefaultComponent,
                      !.b = DefaultComponent, !.background = DefaultBackground,
                      !.omitted = [reset |-> omit_reset,
                                   flags |-> Styles \ passed, other |-> TRUE]]
          IN  Finish(c, Method(c))

\* the caller goes on to its next call
Return ==
    /\ pc = "done"
    /\ pc' = "idle"
    /\ call' = NoCall
    /\ ansi_seq' = <<>>
    /\ written' = <<>>
    /\ raised' = "none"
    /\ UNCHANGED <<color_writes, format_writes, color_printer, constructed,
                   earlier, memo, threads, sink>>

Next ==
    \/ PrintOmitting
    \/ PrintAnsi
    \/ PrintFormatted
    \/ PrintRgb
    \/ PrintColor
    \/ PrintHyperlink
    \/ CollectCodes
    \/ Return

Spec == Init /\ [][Next]_vars


(***************************************************************************)
(* Calls of the module-level functions of core.py.                         *)
(***************************************************************************)
\* colour names handed to the module-level functions
CoreColors == {<<>>, red, ultraviolet}
CoreColorNames == {red, <<" ", "R", "E", "D", " ">>, ultraviolet}
CoreComponents == {-1, 255}
NamedColors == {red, DEFAULT_COLOR}

\* a module-level call c ends; res is what its body does. _check_printer_obj
\* runs first in every body; a call whose keywords do not bind raises
\* TypeError and its body does not run.
CoreFinish(c, res) ==
    /\ pc' = "done"
    /\ call' = c
    /\ IF Binds(c)
       THEN /\ color_printer' = check_printer_obj(color_printer, constructed).printer
            /\ constructed' = check_printer_obj(color_printer, constructed).constructed
            /\ ansi_seq' = res.ansi
            /\ written' = res.written
            /\ raised' = res.raised
            /\ color_writes' = WritesAfter(c).colors
            /\ format_writes' = WritesAfter(c).formats
       ELSE /\ ansi_seq' = <<>>
            /\ written' = <<>>
            /\ raised' = "TypeError"
            /\ UNCHANGED <<color_printer, constructed, color_writes, format_writes>>
    /\ UNCHANGED <<earlier, memo, threads, sink>>

\* reset passed as True or False, or left out
ResetArgs ==
    {[omitted |-> TRUE, reset |-> TRUE], [omitted |-> FALSE, reset |-> TRUE],
     [omitted |-> FALSE, reset |-> FALSE]}

CorePrintFormatted ==
    /\ pc = "idle"
    /\ \E objects \in ObjectLists, flags \in SUBSET OmittableFlags,
          color \in CoreColors, ra \in ResetArgs :
          CoreFinish([NoCall EXCEPT !.op = "core.print_formatted",
                                    !.objects = objects, !.flags = flags,
                                    !.color = color, !.reset = ra.reset,
                                    !.omitted.reset = ra.omitted],
                     core_print_formatted(objects, DefaultSep, DefaultEnd, flags,
                                          color, <<>>))

CorePrintStyle ==
    /\ pc = "idle"
    /\ \E op \in StyleWrappers, objects \in ObjectLists, ra \in ResetArgs :
          CoreFinish([NoCall EXCEPT !.op = op, !.objects = objects,
                                    !.flags = WrapperFlags(op),
                                    !.reset = ra.reset,
                                    !.omitted.reset = ra.omitted],
                     print_style(op, objects, DefaultSep, DefaultEnd, ra.reset))

CorePrintRgb ==
    /\ pc = "idle"
    /\ \E objects \in ObjectLists, ra \in ResetArgs, r \in CoreComponents,
          background \in BOOLEAN :
          CoreFinish([NoCall EXCEPT !.op = "core.print_rgb", !.objects = objects,
                                    !.reset = ra.reset,
                                    !.omitted.reset = ra.omitted, !.r = r,
                                    !.background = background],
                     core_print_rgb(objects, DefaultSep, DefaultEnd, ra.reset, r,
                                    DefaultComponent, DefaultComponent, background))

CorePrintColor ==
    /\ pc = "idle"
    /\ \E objects \in ObjectLists, ra \in ResetArgs, color \in CoreColorNames,
          background \in BOOLEAN :
          CoreFinish([NoCall EXCEPT !.op = "core.print_color", !.objects = objects,
                                    !.reset = ra.reset,
                                    !.omitted.reset = ra.omitted, !.color = color,
                                    !.background = background],
                     core_print_color(objects, color, DefaultSep, DefaultEnd,
                                      ra.reset, background))

\* print_<c> and print_<c>_back of a colour c of the given ones, where the
\* module defines the function; call.color is c
CorePrintFunctions(colors) ==
    /\ pc = "idle"
    /\ \E c \in colors, objects \in ObjectLists, sep \in Seps, end \in Ends,
          background \in BOOLEAN :
          \/ /\ sep = DefaultSep
             /\ c \in DOMAIN PRINT_FUNCTIONS
             /\ CoreFinish([NoCall EXCEPT !.op = "core.print_c", !.color = c,
                                          !.objects = objects, !.end = end,
                                          !.background = background],
                           print_c(c, objects, DefaultSep, end, background))
          \/ /\ background
             /\ c \in DOMAIN PRINT_BACK_FUNCTIONS
             /\ CoreFinish([NoCall EXCEPT !.op = "core.print_c_back", !.color = c,
                                          !.objects = objects, !.sep = sep,
                                          !.end = end, !.background = TRUE],
                           print_c_back(c, objects, sep, end))

CorePrintNamed == CorePrintFunctions(NamedColors)

CorePrintAllColorOptions ==
    /\ pc = "idle"
    /\ CoreFinish([NoCall EXCEPT !.op = "core.print_all_color_options"],
                  print_all_color_options)

CorePrintAllFormatOptions ==
    /\ pc = "idle"
    /\ CoreFinish([NoCall EXCEPT !.op = "core.print_all_format_options"],
                  print_all_format_options)

NextCore ==
    \/ CorePrintFormatted
    \/ CorePrintStyle
    \/ CorePrintRgb
    \/ CorePrintColor
    \/ CorePrintNamed
    \/ CorePrintAllColorOptions
    \/ CorePrintAllFormatOptions
    \/ PrintOmitting
    \/ PrintAnsi
    \/ CollectCodes
    \/ Return

\* the module-level functions, with methods called on a printer of the
\* caller's own in between
SpecCore == Init /\ [][NextCore]_vars

(***************************************************************************)
(* Histories: what ended before the call, and one earlier call remembered  *)
(* with its outcome, to compare the same call made again later.            *)
(***************************************************************************)
\* what kind of call c was, for the calls that came before
Kinds(c, exception) ==
    (IF ~c.omitted.reset /\ ~c.reset /\ exception # "TypeError"
     THEN {"reset_false"} ELSE {})
    \cup (IF Lower(Strip(c.color)) \notin ColorKeys \cup {<<>>}
          THEN {"unknown_name"} ELSE {})
    \cup (IF exception # "none" THEN {"raised"} ELSE {})

\* the calls an observer may remember: one value, reset left out, no
\* style flag, foreground
Remembered(c) ==
    /\ c.op \in {"core.print_formatted", "core.print_color"}
    /\ Len(c.objects) = 1
    /\ c.omitted.reset
    /\ c.flags = {}
    /\ ~c.background

\* the caller goes on to its next call; the call that ended is noted, and
\* remembered if none is yet and the observer chooses to
ReturnNoting ==
    /\ pc = "done"
    /\ pc' = "idle"
    /\ call' = NoCall
    /\ ansi_seq' = <<>>
    /\ written' = <<>>
    /\ raised' = "none"
    /\ earlier' = earlier \cup Kinds(call, raised)
    /\ \/ memo' = memo
       \/ /\ memo = NoMemo
          /\ Remembered(call)
          /\ memo' = [call |-> call, raised |-> raised, written |-> written,
                      ansi |-> ansi_seq]
    /\ UNCHANGED <<color_writes, format_writes, color_printer, constructed,
                   threads, sink>>

NextHistory ==
    \/ CorePrintFormatted
    \/ CorePrintStyle
    \/ CorePrintRgb
    \/ CorePrintColor
    \/ CorePrintNamed
    \/ ReturnNoting

SpecHistory == Init /\ [][NextHistory]_vars

(***************************************************************************)
(* Every colour of the table: the two paths to a named colour on a         *)
(* printer of the caller's own, the functions of the colour, and the       *)
(* listing of all of them.                                                 *)
(***************************************************************************)
\* print_formatted(*objects, color=c) and print_formatted(*objects,
\* back_color=c) for a colour c of the table
PrintFormattedNamed ==
    /\ pc = "idle"
    /\ OwnPrinter
    /\ \E c \in ColorKeys, objects \in ObjectLists, background \in BOOLEAN,
          reset \in BOOLEAN :
          LET color == IF background THEN <<>> ELSE c
              back_color == IF background THEN c ELSE <<>>
          IN  Finish([NoCall EXCEPT !.op = "print_formatted", !.objects = objects,
                                    !.color = color, !.back_color = back_color,
                                    !.reset = reset],
                     print_formatted(objects, DefaultSep, DefaultEnd, {}, color,
                                     back_color, reset))

\* print_<c> and print_<c>_back for a colour c of the table
CorePrintTableColor == CorePrintFunctions(ColorKeys)

NextColors ==
    \/ PrintFormattedNamed
    \/ CorePrintTableColor
    \/ CorePrintAllColorOptions
    \/ Return

\* the calls that name a colour, for every colour of the table
SpecColors == Init /\ [][NextColors]_vars

(***************************************************************************)
(* Threads: each makes one module-level call on the shared sink.  A thread *)
(* may be switched out between any two bytecodes, so the test of line 32   *)
(* of core.py, the assignment of line 33 and the return of line 34 are     *)
(* steps of their own, and so is every write that print makes on the sink. *)
(***************************************************************************)
\* the functions the threads call
ThreadOps == {"core.print_bold", "core.print_reset"}

\* the pieces print_bold(*objects) and the like hand to the sink, one per
\* write, or the exception raised before any is written
print_style_writes(op, objects, sep, end, reset) ==
    LET p == print_ansi_parts(objects, WrapperReset(op, reset),
                              collect_codes(fmt_keys(WrapperFlags(op), <<>>, <<>>)))
    IN  [raised |-> p.raised,
         writes |-> IF p.raised = "none" THEN write_calls(p.parts, sep, end)
                    ELSE <<>>]

\* faulty variant, for the sensitivity of the properties: the failed write
\* is skipped and the call goes on with its next piece
on_write_error_skipped(th) == [th EXCEPT !.todo = Tail(@)]

\* a write on the sink raised: print lets the exception through and so do
\* print_ansi and its callers, none has a try; the pieces left are dropped
\* with the frame
on_write_error(th) == [th EXCEPT !.pc = "done", !.raised = "OSError"]

\* faulty variant, for the sensitivity of the properties: a call waits while
\* the other thread is between its first and its last write
may_write_alone(t) ==
    \A u \in Threads \ {t} :
        threads[u].pc = "print" => \A i \in 1..Len(sink) : sink[i].thread # u

\* what a thread waits for before a write: nothing, print_ansi takes no lock
may_write(t) == TRUE

\* what a step of a thread leaves alone: the caller of the sections above
\* makes no call meanwhile
ThreadStep ==
    UNCHANGED <<pc, call, ansi_seq, written, raised, color_writes, format_writes,
                earlier, memo>>

\* the thread calls the function: it enters _check_printer_obj
ThreadCall(t) ==
    /\ ThreadStep
    /\ threads[t].pc = "start"
    /\ \E op \in ThreadOps, objects \in ObjectLists :
          threads' = [threads EXCEPT ![t].pc = "check", ![t].op = op,
                                     ![t].objects = objects]
    /\ UNCHANGED <<color_printer, constructed, sink>>

\* line 32: if _color_printer is None
ThreadCheck(t) ==
    /\ ThreadStep
    /\ threads[t].pc = "check"
    /\ threads' = [threads EXCEPT ![t].pc = "checked",
                                  ![t].is_none = (color_printer = None)]
    /\ UNCHANGED <<color_printer, constructed, sink>>

\* line 33: _color_printer = ColorPrinter(), when the test found None
ThreadAssign(t) ==
    /\ ThreadStep
    /\ threads[t].pc = "checked"
    /\ threads' = [threads EXCEPT ![t].pc = "return"]
    /\ IF threads[t].is_none
       THEN /\ color_printer' = check_printer_obj(None, constructed).printer
            /\ constructed' = check_printer_obj(None, constructed).constructed
       ELSE UNCHANGED <<color_printer, constructed>>
    /\ UNCHANGED sink

\* line 34: return _color_printer; the method called on it builds the list
\* of pieces and calls print, or raises before
ThreadPrint(t) ==
    /\ ThreadStep
    /\ threads[t].pc = "return"
    /\ LET th == threads[t]
           res == print_style_writes(th.op, th.objects, DefaultSep, DefaultEnd,
                                     DefaultReset(th.op))
       IN  threads' = [threads EXCEPT ![t].printer = color_printer,
                                      ![t].todo = res.writes,
                                      ![t].raised = res.raised,
                                      ![t].pc = IF res.raised = "none"
                                                THEN "print" ELSE "done"]
    /\ UNCHANGED <<color_printer, constructed, sink>>

\* print writes its next piece on the sink; the sink takes it or raises
ThreadWrite(t) ==
    /\ ThreadStep
    /\ threads[t].pc = "print"
    /\ threads[t].todo # <<>>
    /\ may_write(t)
    /\ \E ok \in BOOLEAN :
          /\ sink' = Append(sink, [thread |-> t, piece |-> Head(threads[t].todo),
                                   ok |-> ok])
          /\ threads' = [threads EXCEPT
                            ![t] = IF ok THEN [@ EXCEPT !.todo = Tail(@)]
                                   ELSE on_write_error(@)]
    /\ UNCHANGED <<color_printer, constructed>>

\* print has written its last piece: the call returns
ThreadReturn(t) ==
    /\ ThreadStep
    /\ threads[t].pc = "print"
    /\ threads[t].todo = <<>>
    /\ threads' = [threads EXCEPT ![t].pc = "done"]
    /\ UNCHANGED <<color_printer, constructed, sink>>

NextThreads ==
    \/ \E t \in Threads : ThreadCall(t)
    \/ \E t \in Threads : ThreadCheck(t)
    \/ \E t \in Threads : ThreadAssign(t)
    \/ \E t \in Threads : ThreadPrint(t)
    \/ \E t \in Threads : ThreadWrite(t)
    \/ \E t \in Threads : ThreadReturn(t)

\* two threads, each making its first module-level call
SpecThreads == Init /\ [][NextThreads]_vars
(***************************************************************************)
(* Properties.  The expected texts are written out from the documented     *)
(* formats, not taken from the definitions above.                          *)
(***************************************************************************)
Done == pc = "done"

\* the reset sequence ESC[0m
ResetText == <<ESC, "[", "0", "m">>

\* the documented sequence of each style, in the canonical order
CanonKey == <<BOLD, DIM, ITALIC, UNDERLINE, BLINK, INVERSE, HIDDEN, STRIKETHROUGH>>
CanonText ==
    << <<ESC, "[", "1", "m">>, <<ESC, "[", "2", "m">>, <<ESC, "[", "3", "m">>,
       <<ESC, "[", "4", "m">>, <<ESC, "[", "5", "m">>, <<ESC, "[", "7", "m">>,
       <<ESC, "[", "8", "m">>, <<ESC, "[", "9", "m">> >>

FgRed == <<ESC, "[", "3", "8", ";", "2", ";", "2", "5", "5", ";", "0", ";", "0", "m">>
BgRed == <<ESC, "[", "4", "8", ";", "2", ";", "2", "5", "5", ";", "0", ";", "0", "m">>
FgWhite == <<ESC, "[", "3", "8", ";", "2", ";", "2", "5", "5", ";", "2", "5", "5",
             ";", "2", "5", "5", "m">>
BgWhite == <<ESC, "[", "4", "8", ";", "2", ";", "2", "5", "5", ";", "2", "5", "5",
             ";", "2", "5", "5", "m">>

\* str(v1) + sep + str(v2) + ... + sep + str(vn), from the i-th value on
RECURSIVE PlainFrom(_, _, _)
PlainFrom(objects, sep, i) ==
    IF i > Len(objects) THEN <<>>
    ELSE (IF i > 1 THEN sep ELSE <<>>) \o Str(objects[i])
             \o PlainFrom(objects, sep, i + 1)

Plain(objects, sep) == PlainFrom(objects, sep, 1)

\* how often x occurs in the list
Count(list, x) == Cardinality({i \in 1..Len(list) : list[i] = x})

\* the sequences of the list that select a foreground / a background colour
IsForeground(s) == StartsWith(s, <<ESC, "[", "3", "8", ";">>)
IsBackground(s) == StartsWith(s, <<ESC, "[", "4", "8", ";">>)
Foregrounds(list) == Cardinality({i \in 1..Len(list) : IsForeground(list[i])})
Backgrounds(list) == Cardinality({i \in 1..Len(list) : IsBackground(list[i])})

\* the name is in the colour table once trimmed and lowercased
Known(name) == Lower(Strip(name)) \in ColorKeys
One(b) == IF b THEN 1 ELSE 0

\* the fields of s between the separators c
RECURSIVE SplitOn(_, _)
SplitOn(s, c) ==
    IF \A i \in 1..Len(s) : s[i] # c THEN <<s>>
    ELSE LET i == CHOOSE j \in 1..Len(s) :
                      s[j] = c /\ \A k \in 1..(j - 1) : s[k] # c
         IN  <<SubSeq(s, 1, i - 1)>> \o SplitOn(SubSeq(s, i + 1, Len(s)), c)

IsDigit(ch) == \E d \in 1..10 : Digits[d] = ch
DigitValue(ch) == (CHOOSE d \in 1..10 : Digits[d] = ch) - 1

RECURSIVE ParseNat(_)
ParseNat(s) ==
    IF Len(s) = 1 THEN DigitValue(s[1])
    ELSE 10 * ParseNat(SubSeq(s, 1, Len(s) - 1)) + DigitValue(s[Len(s)])

\* s is a decimal number: digits, no leading zero, "-" before a negative
IsNatText(s) ==
    /\ s # <<>>
    /\ \A i \in 1..Len(s) : IsDigit(s[i])
    /\ (Len(s) > 1 => s[1] # "0")
IsDecimal(s) ==
    \/ IsNatText(s)
    \/ s # <<>> /\ s[1] = "-" /\ IsNatText(Tail(s)) /\ Tail(s) # <<"0">>
ParseInt(s) == IF s[1] = "-" THEN 0 - ParseNat(Tail(s)) ELSE ParseNat(s)

\* s is ESC[<introducer>;2;<r>;<g>;<b>m with the components in decimal
IsColorText(s, introducer, r, g, b) ==
    /\ Len(s) >= 3
    /\ s[1] = ESC /\ s[2] = "[" /\ s[Len(s)] = "m"
    /\ LET fields == SplitOn(SubSeq(s, 3, Len(s) - 1), ";")
       IN  /\ Len(fields) = 5
           /\ fields[1] = introducer
           /\ fields[2] = <<"2">>
           /\ \A i \in 3..5 : IsDecimal(fields[i])
           /\ ParseInt(fields[3]) = r
           /\ ParseInt(fields[4]) = g
           /\ ParseInt(fields[5]) = b

\* C1: print_ansi / print_formatted with n >= 1 values, a non-empty prefix
\* and reset=True writes exactly prefix + str(v1) + sep + ... + str(vn) +
\* ESC[0m + end: the prefix once before the first value, the reset once
\* after the last value and before the terminator.
C1_PrefixFirstResetLast ==
    (/\ Done
     /\ call.op \in {"print_ansi", "print_formatted"}
     /\ Len(call.objects) >= 1
     /\ ansi_seq # <<>>
     /\ call.reset)
    => /\ raised = "none"
       /\ written = Concat(ansi_seq) \o Plain(call.objects, call.sep)
                        \o ResetText \o call.end

\* C1 happens: two values, a separator, two sequences in the prefix, reset on
C1_Witness ==
    /\ Done
    /\ call.op = "print_formatted"
    /\ Len(call.objects) = 2
    /\ call.sep = <<"-">>
    /\ Len(ansi_seq) = 2
    /\ call.reset
    /\ raised = "none"

\* C2: with reset=True the reset sequence ESC[0m follows the last value also
\* when the prefix is empty: the call writes text + ESC[0m + end.
C2_ResetWithEmptyPrefix ==
    (/\ Done
     /\ call.op \in {"print_ansi", "print_formatted"}
     /\ Len(call.objects) >= 1
     /\ ansi_seq = <<>>
     /\ call.reset)
    => /\ raised = "none"
       /\ written = Plain(call.objects, call.sep) \o ResetText \o call.end

\* C3: a print operation called with zero values raises no error, whatever
\* the style request, and writes just the terminator.
C3_ZeroValuesTerminatorOnly ==
    (/\ Done
     /\ call.op \in {"print_ansi", "print_formatted", "print_rgb", "print_color"}
     /\ call.objects = <<>>)
    => /\ raised = "none"
       /\ written = call.end

\* the position of the first occurrence of x in the list (0: none)
Position(list, x) ==
    IF \E i \in 1..Len(list) : list[i] = x
    THEN CHOOSE i \in 1..Len(list) :
             list[i] = x /\ \A j \in 1..(i - 1) : list[j] # x
    ELSE 0

\* C4: for every subset of the eight style flags handed to print_formatted,
\* the prefix holds each requested style exactly once, no unrequested style,
\* and the styles in the canonical order bold, dim, italic, underline, blink,
\* inverse, hidden, strikethrough (ESC[1m before ESC[4m).
C4_CanonicalStyleOrder ==
    (Done /\ call.op = "print_formatted")
    => /\ \A i \in 1..8 :
              Count(ansi_seq, CanonText[i]) = One(CanonKey[i] \in call.flags)
       /\ \A i \in 1..8 : \A j \in (i + 1)..8 :
              (CanonKey[i] \in call.flags /\ CanonKey[j] \in call.flags)
              => Position(ansi_seq, CanonText[i]) < Position(ansi_seq, CanonText[j])

\* C4 happens: underline and bold requested together, and printed
C4_Witness ==
    /\ Done
    /\ call.op = "print_formatted"
    /\ {UNDERLINE, BOLD, STRIKETHROUGH} \subseteq call.flags
    /\ raised = "none"
    /\ Len(written) > Len(call.end)

\* C5: in the prefix of print_formatted a known foreground colour gives
\* exactly one foreground sequence, placed after all style sequences, and a
\* known background colour exactly one background sequence, placed after the
\* foreground sequence (after the styles when there is none); color never
\* comes out with the background template nor back_color with the
\* foreground template.
C5_ColoursAfterStyles ==
    (Done /\ call.op = "print_formatted")
    => LET ns == Cardinality(call.flags)
           fg == One(Known(call.color))
           bg == One(Known(call.back_color))
       IN  /\ Len(ansi_seq) = ns + fg + bg
           /\ Foregrounds(ansi_seq) = fg
           /\ Backgrounds(ansi_seq) = bg
           /\ (fg = 1 => ansi_seq[ns + 1] = FgRed)
           /\ (bg = 1 => ansi_seq[ns + fg + 1] = BgRed)

\* C5 happens: styles, a foreground and a background colour in one call
C5_Witness ==
    /\ Done
    /\ call.op = "print_formatted"
    /\ Cardinality(call.flags) = 2
    /\ Known(call.color)
    /\ Known(call.back_color)
    /\ raised = "none"
    /\ call.objects # <<>>

\* C6: every emitted sequence has the documented format: a style keyword
\* gives ESC[{code}m with the codes 0 reset, 1 bold, 2 dim, 3 italic,
\* 4 underline, 5 blink, 7 inverse, 8 hidden, 9 strikethrough; a colour
\* (r,g,b) gives ESC[38;2;r;g;bm in the foreground and ESC[48;2;r;g;bm in
\* the background, the components in decimal; print_formatted("hi",
\* bold=True, color="red") with end "\n" writes ESC[1m ESC[38;2;255;0;0m hi
\* ESC[0m "\n".
C6_SequenceFormats ==
    /\ (Done /\ call.op = "print_formatted")
       => /\ \A i \in 1..8 :
                 (call.flags = {CanonKey[i]} /\ ~Known(call.color)
                      /\ ~Known(call.back_color))
                 => ansi_seq = <<CanonText[i]>>
          /\ \A i \in 1..Len(ansi_seq) :
                 \/ \E k \in 1..8 : ansi_seq[i] = CanonText[k]
                 \/ IsColorText(ansi_seq[i], <<"3", "8">>, 255, 0, 0)
                 \/ IsColorText(ansi_seq[i], <<"4", "8">>, 255, 0, 0)
          /\ (/\ call.objects = <<S(<<"h", "i">>)>>
              /\ call.flags = {BOLD}
              /\ call.color = red
              /\ call.back_color = <<>>
              /\ call.end = <<"\n">>
              /\ call.reset)
             => written = <<ESC, "[", "1", "m",
                            ESC, "[", "3", "8", ";", "2", ";", "2", "5", "5", ";",
                            "0", ";", "0", "m", "h", "i", ESC, "[", "0", "m", "\n">>
    /\ (Done /\ call.op = "print_rgb")
       => /\ Len(ansi_seq) = 1
          /\ IsColorText(ansi_seq[1],
                         IF call.background THEN <<"4", "8">> ELSE <<"3", "8">>,
                         call.r, call.g, call.b)
    /\ (Done /\ call.op = "collect_codes" /\ call.formats = <<RESET>>)
       => ansi_seq = <<ResetText>>

\* C6 happens: the documented instance is printed
C6_Witness ==
    /\ Done
    /\ call.op = "print_formatted"
    /\ call.objects = <<S(<<"h", "i">>)>>
    /\ call.flags = {BOLD}
    /\ call.color = red
    /\ call.back_color = <<>>
    /\ call.end = <<"\n">>
    /\ call.reset
    /\ raised = "none"

\* the two texts are equal but for the character at position p, which is
\* "3" in the first and "4" in the second
SameButIntroducer(fgtext, bgtext, p) ==
    /\ Len(fgtext) = Len(bgtext)
    /\ Len(fgtext) >= p + 1
    /\ \A i \in 1..Len(fgtext) : i # p => fgtext[i] = bgtext[i]
    /\ fgtext[p] = "3" /\ bgtext[p] = "4"
    /\ fgtext[p + 1] = "8"

\* C7: for every triple (r,g,b) the sequence built with fg=True and the one
\* built with fg=False are equal but for the introducer, 38 against 48, and
\* so print_rgb with background=False and with background=True write texts
\* that differ in that one number only.
C7_ForegroundBackgroundIntroducer ==
    (Done /\ call.op = "print_rgb")
    => LET fgseq == build_ansi_sequence(TRUE, call.r, call.g, call.b)
           bgseq == build_ansi_sequence(FALSE, call.r, call.g, call.b)
           fgout == print_rgb(call.objects, call.sep, call.end, call.reset,
                              call.r, call.g, call.b, FALSE)
           bgout == print_rgb(call.objects, call.sep, call.end, call.reset,
                              call.r, call.g, call.b, TRUE)
       IN  /\ SameButIntroducer(fgseq, bgseq, 3)
           /\ ansi_seq = <<IF call.background THEN bgseq ELSE fgseq>>
           /\ written = (IF call.background THEN bgout ELSE fgout).written
           /\ fgout.raised = bgout.raised
           /\ (raised = "none"
               => SameButIntroducer(fgout.written, bgout.written, 3))

\* C7 happens: a background colour with three different components is printed
C7_Witness ==
    /\ Done
    /\ call.op = "print_rgb"
    /\ call.background
    /\ call.r = 7 /\ call.g = 255 /\ call.b = -1
    /\ raised = "none"

\* C8: in print_formatted a color or back_color that is not in the colour
\* table gives exactly the prefix of the same request without that colour,
\* and every style flag and the other, valid colour of the call still give
\* their sequences.
C8_UnknownColourNoContribution ==
    (Done /\ call.op = "print_formatted")
    => LET ns == Cardinality(call.flags)
       IN  /\ ~Known(call.color)
              => /\ ansi_seq = collect_codes(fmt_keys(call.flags, <<>>,
                                                      call.back_color))
                 /\ Foregrounds(ansi_seq) = 0
                 /\ Len(ansi_seq) = ns + One(Known(call.back_color))
                 /\ (Known(call.back_color) => ansi_seq[ns + 1] = BgRed)
           /\ ~Known(call.back_color)
              => /\ ansi_seq = collect_codes(fmt_keys(call.flags, call.color,
                                                      <<>>))
                 /\ Backgrounds(ansi_seq) = 0
                 /\ Len(ansi_seq) = ns + One(Known(call.color))
                 /\ (Known(call.color) => ansi_seq[ns + 1] = FgRed)
           /\ (~Known(call.color) \/ ~Known(call.back_color))
              => \A i \in 1..8 :
                     CanonKey[i] \in call.flags
                     => \E j \in 1..ns : ansi_seq[j] = CanonText[i]

\* C8 happens: "ultraviolet" beside a style and a valid background colour
C8_Witness ==
    /\ Done
    /\ call.op = "print_formatted"
    /\ call.color = ultraviolet
    /\ Known(call.back_color)
    /\ ITALIC \in call.flags
    /\ raised = "none"
    /\ call.objects # <<>>

\* the entry of a collect_codes list names a style, a colour or a
\* "back_" colour, once trimmed and lowercased
Recognised(fmt) ==
    LET key == Lower(Strip(fmt))
    IN  \/ key \in FormatKeys
        \/ key \in ColorKeys
        \/ /\ StartsWith(key, BACK_TAG)
           /\ SubSeq(key, Len(BACK_TAG) + 1, Len(key)) \in ColorKeys

\* what the state records of a call's result
Outcome == [raised |-> raised, written |-> written, ansi |-> ansi_seq]

\* C9 as stated: an unknown colour or style name is silently ignored in every
\* operation that accepts names, print_formatted, print_color,
\* print_hyperlink and collect_codes: the call that completes carries no
\* escape sequence for the unknown name.
C9_UnknownNameIgnoredEverywhere ==
    /\ (Done /\ call.op \in {"print_formatted", "print_hyperlink"})
       => /\ (~Known(call.color) => Foregrounds(ansi_seq) = 0)
          /\ (~Known(call.back_color) => Backgrounds(ansi_seq) = 0)
    /\ (Done /\ call.op = "print_color" /\ ~Known(call.color)
            /\ raised = "none")
       => Foregrounds(ansi_seq) + Backgrounds(ansi_seq) = 0
    /\ (Done /\ call.op = "collect_codes")
       => /\ raised = "none"
          /\ Len(ansi_seq) = Len(SelectSeq(call.formats, Recognised))

\* C9 as amended: no name is an error of its own, and an unknown name is
\* ignored by print_formatted, print_hyperlink and collect_codes, while
\* print_color replaces it by the default colour white.  print_formatted and
\* print_hyperlink given an unknown color (back_color) end exactly as the
\* same call with that name empty and carry no foreground (background)
\* sequence; collect_codes never raises and returns one sequence per
\* recognised entry; print_color given an unknown name ends exactly as the
\* same call with "white", whose sequence it carries.
C9_UnknownNameIgnoredButPrintColor ==
    /\ (Done /\ call.op = "print_formatted")
       => /\ ~Known(call.color)
             => /\ Outcome = print_formatted(call.objects, call.sep, call.end,
                                             call.flags, <<>>, call.back_color,
                                             call.reset)
                /\ Foregrounds(ansi_seq) = 0
          /\ ~Known(call.back_color)
             => /\ Outcome = print_formatted(call.objects, call.sep, call.end,
                                             call.flags, call.color, <<>>,
                                             call.reset)
                /\ Backgrounds(ansi_seq) = 0
    /\ (Done /\ call.op = "print_hyperlink")
       => /\ raised = "none"
          /\ ~Known(call.color)
             => /\ Outcome = print_hyperlink(call.text, call.hyperlink, call.sep,
                                             call.end, call.flags, <<>>,
                                             call.back_color, call.reset)
                /\ Foregrounds(ansi_seq) = 0
          /\ ~Known(call.back_color)
             => /\ Outcome = print_hyperlink(call.text, call.hyperlink, call.sep,
                                             call.end, call.flags, call.color,
                                             <<>>, call.reset)
                /\ Backgrounds(ansi_seq) = 0
    /\ (Done /\ call.op = "collect_codes")
       => /\ raised = "none"
          /\ Len(ansi_seq) = Len(SelectSeq(call.formats, Recognised))
          /\ ansi_seq = collect_codes(SelectSeq(call.formats, Recognised))
    /\ (Done /\ call.op = "print_color" /\ ~Known(call.color))
       => /\ Outcome = print_color(call.objects, call.sep, call.end,
                                   DEFAULT_COLOR, call.background, call.reset)
          /\ ansi_seq = <<IF call.background THEN BgWhite ELSE FgWhite>>

\* C9 happens: collect_codes is handed an unknown name beside a known one
C9_Witness ==
    /\ Done
    /\ call.op = "collect_codes"
    /\ Len(call.formats) = 2
    /\ call.formats[1] = ultraviolet
    /\ Recognised(call.formats[2])
    /\ Len(ansi_seq) = 1

\* C10: print_color called with a name that is not in the colour table falls
\* back to the default colour white: it ends as the same call with
\* color="white" does and writes the sequence of (255,255,255), in the
\* foreground or the background as selected.
C10_PrintColorFallsBackToWhite ==
    (Done /\ call.op = "print_color" /\ ~Known(call.color))
    => /\ Outcome = print_color(call.objects, call.sep, call.end,
                                <<"w", "h", "i", "t", "e">>, call.background,
                                call.reset)
       /\ (call.objects # <<>>
           => /\ raised = "none"
              /\ written = (IF call.background THEN BgWhite ELSE FgWhite)
                               \o Plain(call.objects, call.sep)
                               \o (IF call.reset THEN ResetText ELSE <<>>)
                               \o call.end)

\* C10 happens: an unknown name on the background is printed
C10_Witness ==
    /\ Done
    /\ call.op = "print_color"
    /\ call.color = ultraviolet
    /\ call.background
    /\ call.objects # <<>>
    /\ raised = "none"

\* spellings of "red" and of "white" that differ in letter case and in
\* leading and trailing whitespace
RedVariants == {red, <<"R", "e", "d">>, <<" ", "R", "E", "D", " ">>}
WhiteVariants == {DEFAULT_COLOR, <<"\t", "W", "h", "i", "t", "e", "\n">>}

\* C11: colour lookup ignores letter case and surrounding whitespace: a
\* variant of a table name ("Red", " RED ") handed to print_formatted as
\* color or back_color, to print_color, or to collect_codes (alone or
\* behind "back_") gives the result the name itself gives.
C11_LookupIgnoresCaseAndSpace ==
    /\ (Done /\ call.op = "print_formatted")
       => /\ call.color \in RedVariants
             => /\ Outcome = print_formatted(call.objects, call.sep, call.end,
                                             call.flags, red, call.back_color,
                                             call.reset)
                /\ ansi_seq[Cardinality(call.flags) + 1] = FgRed
          /\ call.back_color \in RedVariants
             => /\ Outcome = print_formatted(call.objects, call.sep, call.end,
                                             call.flags, call.color, red,
                                             call.reset)
                /\ ansi_seq[Len(ansi_seq)] = BgRed
    /\ (Done /\ call.op = "print_color")
       => /\ call.color \in RedVariants
             => /\ Outcome = print_color(call.objects, call.sep, call.end, red,
                                         call.background, call.reset)
                /\ ansi_seq = <<IF call.background THEN BgRed ELSE FgRed>>
          /\ call.color \in WhiteVariants
             => Outcome = print_color(call.objects, call.sep, call.end,
                                      DEFAULT_COLOR, call.background, call.reset)
    /\ (Done /\ call.op = "collect_codes" /\ Len(call.formats) = 1)
       => /\ call.formats[1] \in RedVariants => ansi_seq = <<FgRed>>
          /\ call.formats[1] \in {BACK_TAG \o red,
                                  <<"B", "a", "c", "k", "_", "R", "e", "d">>}
             => ansi_seq = <<BgRed>>

\* C11 happens: " RED " is handed to print_formatted as the background
C11_Witness ==
    /\ Done
    /\ call.op = "print_formatted"
    /\ call.back_color = <<" ", "R", "E", "D", " ">>
    /\ call.color = <<>>
    /\ raised = "none"
    /\ call.objects # <<>>


(***************************************************************************)
(* C12 - C15: the visible text, hyperlinks, and the reset option.          *)
(***************************************************************************)
\* the text with its escape sequences removed: each ESC [ ... m is dropped
\* whole, every other character is kept in place
RECURSIVE StripAnsi(_)
StripAnsi(s) ==
    IF \A i \in 1..Len(s) : s[i] # ESC THEN s
    ELSE IF /\ Len(s) >= 2
            /\ s[1] = ESC
            /\ s[2] = "["
            /\ \E j \in 3..Len(s) : s[j] = "m"
         THEN LET j == CHOOSE k \in 3..Len(s) :
                           s[k] = "m" /\ \A l \in 3..(k - 1) : s[l] # "m"
              IN  StripAnsi(SubSeq(s, j + 1, Len(s)))
         ELSE <<Head(s)>> \o StripAnsi(Tail(s))

\* how often the text x occurs in the text s
Occurrences(s, x) ==
    Cardinality({i \in 1..(Len(s) - Len(x) + 1) : SubSeq(s, i, i + Len(x) - 1) = x})

\* the methods that print a list of values
ValueMethods == {"print_ansi", "print_formatted", "print_rgb", "print_color"}

\* C12: for every style request and every list of values, the written
\* output with its escape sequences removed is exactly the plain output
\* str(v1) + sep + ... + str(vn) + end.
C12_StripRecoversPlainText ==
    (Done /\ call.op \in ValueMethods)
    => StripAnsi(written) = Plain(call.objects, call.sep) \o call.end

\* the same for the calls that end without an exception
StripRecoversPlainTextWhenCompleted ==
    (Done /\ call.op \in ValueMethods /\ raised = "none")
    => StripAnsi(written) = Plain(call.objects, call.sep) \o call.end

\* the label wrapped in the link-start and link-end sequences
LinkText(hyperlink, text) ==
    <<ESC, "]", "8", ";", ";">> \o hyperlink \o <<ESC, "\\">> \o text
        \o <<ESC, "]", "8", ";", ";", ESC, "\\">>

\* C13: print_hyperlink writes prefix + link-wrapped label + reset + end for
\* every style request, the prefix before the link-start sequence and the
\* reset after the link-end sequence; with "click", "https://x" and the
\* defaults that is ESC[4m, the link-wrapped label, ESC[0m, newline.
C13_HyperlinkInsideStyle ==
    (Done /\ call.op = "print_hyperlink")
    => /\ raised = "none"
       /\ written = Concat(ansi_seq) \o LinkText(call.hyperlink, call.text)
                        \o (IF call.reset THEN ResetText ELSE <<>>) \o call.end
       /\ (call.omitted.reset /\ call.omitted.flags = Styles)
          => written = <<ESC, "[", "4", "m">>
                           \o LinkText(call.hyperlink, call.text)
                           \o <<ESC, "[", "0", "m", "\n">>

\* the same for the calls whose prefix is not empty
HyperlinkInsideStyleWhenStyled ==
    (Done /\ call.op = "print_hyperlink" /\ ansi_seq # <<>>)
    => /\ raised = "none"
       /\ written = Concat(ansi_seq) \o LinkText(call.hyperlink, call.text)
                        \o (IF call.reset THEN ResetText ELSE <<>>) \o call.end

UnderlineText == <<ESC, "[", "4", "m">>

\* C14: print_hyperlink underlines by default and only by default: with no
\* style argument the prefix is exactly ESC[4m; with underline=False passed
\* the prefix has no ESC[4m; the other flags and the colours contribute as
\* in print_formatted (a flag's sequence once when it is passed True, not
\* when it is left out or False; a colour's sequence when it is known).
C14_HyperlinkUnderlineDefault ==
    (Done /\ call.op = "print_hyperlink")
    => /\ (call.omitted.flags = Styles /\ call.omitted.other)
          => ansi_seq = <<UnderlineText>>
       /\ UNDERLINE \in call.omitted.flags => Count(ansi_seq, UnderlineText) = 1
       /\ (UNDERLINE \notin call.omitted.flags /\ UNDERLINE \notin call.flags)
          => /\ Count(ansi_seq, UnderlineText) = 0
             /\ Occurrences(written, UnderlineText) = 0
       /\ \A i \in 1..Len(CanonKey) :
             CanonKey[i] # UNDERLINE
             => /\ CanonKey[i] \in call.omitted.flags => CanonKey[i] \notin call.flags
                /\ Count(ansi_seq, CanonText[i]) = One(CanonKey[i] \in call.flags)
       /\ Foregrounds(ansi_seq) = One(Known(call.color))
       /\ Backgrounds(ansi_seq) = One(Known(call.back_color))
       /\ Len(ansi_seq) = Cardinality(call.flags) + One(Known(call.color))
                              + One(Known(call.back_color))

\* C14 happens: a hyperlink printed with no style argument at all
C14_Witness ==
    /\ Done
    /\ call.op = "print_hyperlink"
    /\ call.omitted.flags = Styles
    /\ call.omitted.other
    /\ call.text # <<>>
    /\ raised = "none"

\* the caller passed underline=False and another flag
HyperlinkUnderlineOff ==
    /\ Done
    /\ call.op = "print_hyperlink"
    /\ UNDERLINE \notin call.omitted.flags
    /\ call.flags = {BOLD}

\* C15: in print_formatted, print_rgb, print_color and print_hyperlink reset
\* defaults to true; with reset=False the output has no ESC[0m at all; with
\* reset true (passed or by default) and a non-empty prefix the output has
\* exactly one ESC[0m, after the last value and before the terminator.
C15_ResetDefaultAndSuffix ==
    (Done /\ call.op \in PrintMethods)
    => LET values == IF call.op = "print_hyperlink"
                     THEN <<S(LinkText(call.hyperlink, call.text))>>
                     ELSE call.objects
           on == call.omitted.reset \/ call.reset
       IN  /\ (~call.omitted.reset /\ ~call.reset)
              => Occurrences(written, ResetText) = 0
           /\ (on /\ ansi_seq # <<>> /\ values # <<>>)
              => /\ raised = "none"
                 /\ Occurrences(written, ResetText) = 1
                 /\ written = Concat(ansi_seq) \o Plain(values, call.sep)
                                  \o ResetText \o call.end

\* C15 happens: a value printed by print_rgb with reset left out
C15_Witness ==
    /\ Done
    /\ call.op = "print_rgb"
    /\ call.omitted.reset
    /\ call.objects # <<>>
    /\ raised = "none"

\* reset=False passed with a prefix and two values
ResetOffStyled ==
    /\ Done
    /\ call.op = "print_color"
    /\ ~call.omitted.reset
    /\ ~call.reset
    /\ Len(call.objects) = 2

(***************************************************************************)
(* C17: the components of print_rgb.                                       *)
(***************************************************************************)
\* C17: print_rgb uses r, g, b exactly as given, also below 0 and above
\* 255: its one sequence carries the three decimal values unchanged, and no
\* triple makes the call raise (a call with a value completes whatever the
\* components are, and what it writes starts with that sequence).
C17_RgbComponentsAsGiven ==
    (Done /\ call.op = "print_rgb")
    => /\ Len(ansi_seq) = 1
       /\ IsColorText(ansi_seq[1],
                      IF call.background THEN <<"4", "8">> ELSE <<"3", "8">>,
                      call.r, call.g, call.b)
       /\ call.objects # <<>>
          => /\ raised = "none"
             /\ StartsWith(written, ansi_seq[1])
             /\ Occurrences(written, ansi_seq[1]) = 1

\* C17 happens: components below 0 and above 255 printed with a value
C17_Witness ==
    /\ Done
    /\ call.op = "print_rgb"
    /\ call.r = -1
    /\ call.g = 256
    /\ call.b = 255
    /\ call.objects # <<>>
    /\ raised = "none"

(***************************************************************************)
(* C16, C18 - C20: the module-level functions, the tables, histories and   *)
(* the shared printer.                                                     *)
(***************************************************************************)
\* C16: the module-level print_formatted accepts reset (default true): a
\* call that passes reset gives the same result as ColorPrinter's
\* print_formatted for the same arguments, with reset=False output without
\* the reset suffix.
C16_CorePrintFormattedTakesReset ==
    (Done /\ call.op = "core.print_formatted")
    => Outcome = print_formatted(call.objects, call.sep, call.end, call.flags,
                                 call.color, call.back_color, call.reset)

\* the same for the calls that leave reset out
CorePrintFormattedWithoutReset ==
    (Done /\ call.op = "core.print_formatted" /\ call.omitted.reset)
    => Outcome = print_formatted(call.objects, call.sep, call.end, call.flags,
                                 call.color, call.back_color, TRUE)

\* C18: COLOR_RGB and FORMAT_CODES are read-only after initialisation:
\* after any sequence of calls of any operation, with known or unknown
\* names, both tables have exactly the entries they had at the start.
C18_TablesReadOnly ==
    /\ color_rgb = COLOR_RGB
    /\ format_codes = FORMAT_CODES

\* C18 happens: print_color has looked an unknown name up through the
\* shared printer
C18_Witness ==
    /\ Done
    /\ call.op = "core.print_color"
    /\ call.color = ultraviolet
    /\ raised = "none"
    /\ written # <<>>

\* both option printers have run
AllColorOptionsPrinted ==
    /\ Done
    /\ call.op = "core.print_all_color_options"
    /\ Len(written) > 50000
AllFormatOptionsPrinted ==
    /\ Done
    /\ call.op = "core.print_all_format_options"
    /\ Len(written) = 1500

\* C19: no style request persists across calls: what a call writes depends
\* only on its own arguments, never on the calls before it. The same call
\* made again after any history (calls with reset=False, with unknown
\* names, calls that raised) has the same outcome as when it was first made.
C19_OutputIndependentOfHistory ==
    (Done /\ memo # NoMemo /\ call = memo.call)
    => Outcome = [raised |-> memo.raised, written |-> memo.written,
                  ansi |-> memo.ansi]

\* C19 happens: a remembered call is made again after calls of all three
\* kinds
C19_Witness ==
    /\ Done
    /\ memo # NoMemo
    /\ call = memo.call
    /\ earlier = {"reset_false", "unknown_name", "raised"}
    /\ raised = "none"

\* a module-level function whose body has run
EnteredCore(c, exception) ==
    /\ c.op \notin {"none", "print_ansi", "collect_codes"} \cup PrintMethods
    /\ exception # "TypeError"

\* C20: the module constructs one shared ColorPrinter lazily:
\* _color_printer is None until the first call of a module-level function,
\* that call constructs the instance, and every later call gets the same
\* instance: none is constructed again and _color_printer never goes back
\* to None.
C20_LazySharedPrinter ==
    /\ [](/\ constructed \in {0, 1}
          /\ color_printer = None <=> constructed = 0
          /\ color_printer # None => color_printer = 1
          /\ (Done /\ EnteredCore(call, raised)) => color_printer # None)
    /\ [][/\ color_printer # None
             => /\ color_printer' = color_printer
                /\ constructed' = constructed
          /\ (color_printer = None /\ color_printer' # None)
             => /\ pc = "idle"
                /\ EnteredCore(call', raised')
                /\ constructed' = 1
          /\ (pc = "idle" /\ pc' = "done" /\ ~EnteredCore(call', raised'))
             => UNCHANGED <<color_printer, constructed>>]_vars

\* C20 happens: a module-level call made when the printer exists already
C20_Witness ==
    /\ Done
    /\ call.op = "core.print_bold"
    /\ color_printer = 1
    /\ constructed = 1
    /\ raised = "none"

\* the sequence the documentation gives for a recognised entry of a format
\* list: ESC[{code}m for a style keyword, the foreground sequence for a
\* colour name, the background sequence for "back_" + colour name
SequenceFor(fmt) ==
    LET key == Lower(Strip(fmt))
    IN  CASE key = RESET -> ResetText
          [] \E i \in 1..Len(CanonKey) : CanonKey[i] = key ->
                CanonText[CHOOSE i \in 1..Len(CanonKey) : CanonKey[i] = key]
          [] key = red -> FgRed
          [] key = BACK_TAG \o red -> BgRed
          [] OTHER -> <<>>

\* C24: collect_codes never reorders or deduplicates: its result is the input
\* list with every unrecognised entry removed and every recognised entry
\* replaced, in input order, by its sequence; an entry given k times yields k
\* sequences, and the result is never longer than the input.
C24_CollectCodesKeepsOrderAndRepeats ==
    (Done /\ call.op = "collect_codes") =>
        LET kept == SelectSeq(call.formats, Recognised)
        IN  /\ raised = "none"
            /\ written = <<>>
            /\ Len(ansi_seq) = Len(kept)
            /\ Len(ansi_seq) <= Len(call.formats)
            /\ \A i \in 1..Len(kept) : ansi_seq[i] = SequenceFor(kept[i])

\* a recognised entry given twice has yielded its sequence twice
C24_Witness ==
    /\ Done
    /\ call.op = "collect_codes"
    /\ Len(call.formats) = 2
    /\ call.formats[1] = call.formats[2]
    /\ Recognised(call.formats[1])
    /\ ansi_seq = <<SequenceFor(call.formats[1]), SequenceFor(call.formats[1])>>

\* the last colour of the table
yellowgreen == <<"y", "e", "l", "l", "o", "w", "g", "r", "e", "e", "n">>

\* s is ESC[<n>;2;<r>;<g>;<b>m with r, g and b decimal numbers of 0..255
ComponentsInRange(s) ==
    /\ Len(s) >= 3
    /\ s[1] = ESC /\ s[2] = "[" /\ s[Len(s)] = "m"
    /\ LET fields == SplitOn(SubSeq(s, 3, Len(s) - 1), ";")
       IN  /\ Len(fields) = 5
           /\ \A i \in 3..5 : IsNatText(fields[i]) /\ ParseNat(fields[i]) \in 0..255

\* the operations that take the name of a colour of the table
NamedOps == {"print_formatted", "print_color", "core.print_color", "core.print_c",
             "core.print_c_back"}

\* C23: every entry of the colour table maps a lowercase, whitespace-free
\* name to exactly one triple of three integers each in 0..255, so every
\* name of the table is found by the normalised (strip + lowercase) lookup
\* and every sequence built from a named colour has its components in 0..255.
C23_ColorTableWellFormed ==
    /\ \A name \in ColorKeys :
          /\ name # <<>>
          /\ \A i \in 1..Len(name) : name[i] \notin Whitespace /\ name[i] \notin UpperCase
          /\ Lower(Strip(name)) = name
          /\ Len(color_rgb[name]) = 3
          /\ \A i \in 1..3 : color_rgb[name][i] \in 0..255
          /\ collect_codes(<<name>>) # <<>>
    /\ (Done /\ call.op \in NamedOps /\ raised = "none")
       => \A i \in 1..Len(ansi_seq) :
             (IsForeground(ansi_seq[i]) \/ IsBackground(ansi_seq[i]))
             => ComponentsInRange(ansi_seq[i])

\* the last colour of the table has been printed as a foreground colour
C23_Witness ==
    /\ Done
    /\ call.op = "print_formatted"
    /\ call.color = yellowgreen
    /\ call.objects # <<>>
    /\ raised = "none"
    /\ IsColorText(ansi_seq[1], <<"3", "8">>, 154, 205, 50)

\* C25: for every name c of the colour table the module defines print_<c>
\* and print_<c>_back, so print_all_color_options never fails its globals()
\* lookup, and print_<c>(values, sep, end, background) writes exactly what
\* print_color(values, color=c, the same options, reset=True) writes.
C25_ColorFunctionsPrefillColor ==
    /\ \A c \in ColorKeys :
          c \in DOMAIN PRINT_FUNCTIONS /\ c \in DOMAIN PRINT_BACK_FUNCTIONS
    /\ (Done /\ call.op = "core.print_all_color_options") => raised = "none"
    /\ (Done /\ call.op = "core.print_c")
       => Outcome = core_print_color(call.objects, call.color, call.sep, call.end,
                                     TRUE, call.background)

\* print_yellowgreen has printed two values on the background
C25_Witness ==
    /\ Done
    /\ call.op = "core.print_c"
    /\ call.color = yellowgreen
    /\ call.background
    /\ Len(call.objects) = 2
    /\ raised = "none"
    /\ written # <<>>

\* C26 as stated: every module-level style wrapper that takes reset,
\* print_bold, print_italic, print_underline, print_strikethrough, print_dim,
\* print_blink, print_inverse and print_hidden, forwards the caller's reset:
\* called with reset=False it writes its style prefix and the text with no
\* ESC[0m suffix.
C26_StyleWrappersForwardReset ==
    (/\ Done
     /\ call.op \in StyleWrappers \ {"core.print_reset"}
     /\ ~call.omitted.reset
     /\ ~call.reset
     /\ call.objects # <<>>)
    => /\ raised = "none"
       /\ Occurrences(written, ResetText) = 0
       /\ written = Concat(ansi_seq) \o Plain(call.objects, call.sep) \o call.end

\* the five wrappers that pass reset=reset do forward it
ForwardingWrappersForwardReset ==
    (/\ Done
     /\ call.op \in {"core.print_bold", "core.print_italic", "core.print_underline",
                     "core.print_strikethrough", "core.print_dim"}
     /\ ~call.omitted.reset
     /\ ~call.reset
     /\ call.objects # <<>>)
    => /\ raised = "none"
       /\ Occurrences(written, ResetText) = 0
       /\ written = Concat(ansi_seq) \o Plain(call.objects, call.sep) \o call.end

\* C27 as stated: every print_<color>_back(values, sep, end, file, flush)
\* honours the caller's sep and end: its output equals that of
\* print_<color>(values, sep, end, file, flush, background=True) with the same
\* arguments.
C27_BackFunctionsHonourOptions ==
    (Done /\ call.op = "core.print_c_back")
    => Outcome = print_c(call.color, call.objects, call.sep, call.end, TRUE)

\* with the default separator and terminator the two do agree
BackFunctionsAgreeOnDefaults ==
    (Done /\ call.op = "core.print_c_back" /\ call.sep = DefaultSep
          /\ call.end = DefaultEnd)
    => Outcome = print_c(call.color, call.objects, call.sep, call.end, TRUE)

\* C28: the two paths to a named colour agree: for every name c of the
\* colour table and every list of values, print_formatted(values, color=c)
\* writes what print_color(values, color=c, background=False) writes, and
\* print_formatted(values, back_color=c) what print_color(values, color=c,
\* background=True) writes.
C28_NamedColorPathsAgree ==
    (/\ Done
     /\ call.op = "print_formatted"
     /\ call.flags = {}
     /\ \/ call.color \in ColorKeys /\ call.back_color = <<>>
        \/ call.color = <<>> /\ call.back_color \in ColorKeys)
    => LET background == call.color = <<>>
           c == IF background THEN call.back_color ELSE call.color
       IN  Outcome = print_color(call.objects, call.sep, call.end, c, background,
                                 call.reset)

\* the last colour of the table has been printed as a background colour by
\* print_formatted
C28_Witness ==
    /\ Done
    /\ call.op = "print_formatted"
    /\ call.back_color = yellowgreen
    /\ call.color = <<>>
    /\ Len(call.objects) = 2
    /\ raised = "none"
    /\ IsColorText(ansi_seq[1], <<"4", "8">>, 154, 205, 50)

\* the writes thread t made on the sink, in order
WritesOf(t) == SelectSeq(sink, LAMBDA e : e.thread = t)

\* the thread has made its call
Called(t) == threads[t].op # "none"

\* C21: a failure of the sink write is propagated at once to the caller as an
\* error: the print operation makes no retry, makes no further write of the
\* call's remaining pieces after the failure, and does not swallow the error.
C21_SinkFailurePropagates ==
    \A t \in Threads :
        Called(t) =>
            LET mine == WritesOf(t)
                pieces == print_style_writes(threads[t].op, threads[t].objects,
                                             DefaultSep, DefaultEnd, TRUE).writes
            IN  /\ \A i \in 1..Len(mine) :
                      ~mine[i].ok => /\ i = Len(mine)
                                     /\ threads[t].pc = "done"
                                     /\ threads[t].raised = "OSError"
                /\ threads[t].raised = "OSError"
                   => mine # <<>> /\ ~mine[Len(mine)].ok
                /\ Len(mine) <= Len(pieces)
                /\ \A i \in 1..Len(mine) : mine[i].piece = pieces[i]
                /\ (threads[t].pc = "done" /\ threads[t].raised = "none")
                   => Len(mine) = Len(pieces)

\* the sink failed on the second of five pieces: the first is written, the
\* three after it never are, and the call has ended with the error
C21_Witness ==
    \E t \in Threads :
        /\ threads[t].pc = "done"
        /\ threads[t].raised = "OSError"
        /\ Len(WritesOf(t)) = 2
        /\ WritesOf(t)[1].ok
        /\ ~WritesOf(t)[2].ok
        /\ Len(threads[t].todo) = 3

\* C22: there is no synchronisation around the sink: a call that has pieces
\* to write can always write its next one, whatever the other thread is in
\* the middle of, so the pieces of two calls can alternate on the sink.
C22_NoSynchronisationAroundSink ==
    \A t \in Threads :
        (threads[t].pc = "print" /\ threads[t].todo # <<>>) => ENABLED ThreadWrite(t)

\* the interleaving of C22: a piece written by one call stands between the
\* bold prefix and the reset of the other call
C22_Witness ==
    \E t \in Threads, u \in Threads, i \in 1..Len(sink), j \in 1..Len(sink),
       k \in 1..Len(sink) :
        /\ t # u
        /\ i < j /\ j < k
        /\ sink[i].thread = t /\ sink[j].thread = u /\ sink[k].thread = t
        /\ sink[i].ok /\ sink[j].ok /\ sink[k].ok
        /\ threads[t].op = "core.print_bold"
        /\ threads[u].op = "core.print_reset"
        /\ StartsWith(sink[i].piece, <<ESC, "[", "1", "m">>)
        /\ Occurrences(sink[i].piece, ResetText) = 0
        /\ threads[u].objects # <<>>
        /\ sink[j].piece = Str(threads[u].objects[1])
        /\ Occurrences(sink[k].piece, ResetText) = 1

\* the thread is past _check_printer_obj
HasPrinter(t) == threads[t].pc \in {"print", "done"}

\* C29 as stated: when several threads make their first module-level call
\* at the same time, in every interleaving at most one ColorPrinter is ever
\* constructed and every thread receives that same instance.
C29_OnePrinterUnderThreads ==
    /\ constructed <= 1
    /\ \A t \in Threads, u \in Threads :
          (HasPrinter(t) /\ HasPrinter(u)) => threads[t].printer = threads[u].printer

\* what does hold: every thread receives an instance that was constructed,
\* and no more are constructed than there are threads
EveryThreadGetsAPrinter ==
    /\ constructed <= Cardinality(Threads)
    /\ \A t \in Threads : HasPrinter(t) => threads[t].printer \in 1..constructed

\* the pieces a call wrote, put together, are the text of the call
WritesMakeTheText ==
    \A t \in Threads :
        (threads[t].pc = "done" /\ threads[t].raised = "none")
        => Concat([i \in 1..Len(WritesOf(t)) |-> WritesOf(t)[i].piece])
               = print_style(threads[t].op, threads[t].objects, DefaultSep,
                             DefaultEnd, TRUE).written
====
